---- MODULE Spec2Model ----
(***************************************************************************)
(* Conversation Metrics Engine of tau2_ext: the tool-call matcher, the     *)
(* per-tool PRF aggregator, the sequence-compliance analyzer, the          *)
(* tool-criticality analyzer and the complexity metrics, as state machines *)
(* over bounded inputs.                                                    *)
(*                                                                         *)
(* Python lists are sequences (index j of Python is index j+1 here, and    *)
(* match_idx = None is 0); a Python dict is a function on the set of its   *)
(* keys, so "k in d" is k \in DOMAIN d and {} is the empty function <<>>.  *)
(***************************************************************************)
EXTENDS Integers, Sequences, FiniteSets

VARIABLES
    pc,             \* position of the running analyzer
    schemas,        \* ToolSchemaLoader.schemas: domain -> tool name -> key list
    \* PerToolPRFMetric._greedy_match_tools: parameters and locals
    tool_name, domain, gt_list, ex_list, used, tp, gi, matched_count,
    \* PerToolPRFMetric.calculate: the dataset, the row index, rows, the result
    df, idx, rows, prf_table,
    \* SequenceComplianceMetric.calculate: rows, and the locals of its loop
    seq_rows, gt_names, ex_names, ped,
    \* ToolCriticalityMetric.calculate and
    \* MetricsCalculator.calculate_tool_criticality: flags and the result
    flags, tci_table,
    \* ComplexityMetrics: the two results
    weighted_pass1, bucket_pass1,
    \* DataPreparer.prepare_multiple_simulation_files: the files, the loop
    \* positions, conversations of the current file, all_data
    simulation_files, file_i, sim_i, conversations, all_data,
    \* ToolSchemaLoader._extract_tool_schemas_from_tasks: tasks_data, the loop
    \* positions, tool_schemas
    tasks_data, task_i, action_i, tool_schemas

vars == <<pc, schemas, tool_name, domain, gt_list, ex_list, used, tp, gi,
          matched_count, df, idx, rows, prf_table, seq_rows, gt_names,
          ex_names, ped, flags, tci_table, weighted_pass1, bucket_pass1,
          simulation_files, file_i, sim_i, conversations, all_data,
          tasks_data, task_i, action_i, tool_schemas>>

matchVars == <<tool_name, domain, gt_list, ex_list, used, tp, gi, matched_count>>
prfVars == <<df, idx, rows, prf_table>>
seqVars == <<seq_rows, gt_names, ex_names, ped>>
tciVars == <<flags, tci_table>>
cplxVars == <<weighted_pass1, bucket_pass1>>
prepVars == <<simulation_files, file_i, sim_i, conversations, all_data>>
loadVars == <<tasks_data, task_i, action_i, tool_schemas>>

\* The variables of an analyzer that is not running.
IdleMatch ==
    /\ tool_name = ""
    /\ domain = ""
    /\ gt_list = <<>>
    /\ ex_list = <<>>
    /\ used = <<>>
    /\ tp = 0
    /\ gi = 0
    /\ matched_count = -1

IdlePRF ==
    /\ df = <<>>
    /\ idx = 0
    /\ rows = <<>>
    /\ prf_table = <<>>

IdleSeq ==
    /\ seq_rows = <<>>
    /\ gt_names = <<>>
    /\ ex_names = <<>>
    /\ ped = 0

IdleTCI ==
    /\ flags = <<>>
    /\ tci_table = <<>>

IdleCplx ==
    /\ weighted_pass1 = "none"
    /\ bucket_pass1 = <<>>

IdlePrep ==
    /\ simulation_files = <<>>
    /\ file_i = 0
    /\ sim_i = 0
    /\ conversations = <<>>
    /\ all_data = <<>>

IdleLoad ==
    /\ tasks_data = <<>>
    /\ task_i = 0
    /\ action_i = 0
    /\ tool_schemas = <<>>

-----------------------------------------------------------------------------
(* Bounds of the model and the input universes.                            *)

MaxGt == 2      \* longest expected list of one tool name in one conversation
MaxEx == 2      \* longest executed list of one tool name in one conversation

\* The argument mappings the inputs are drawn from: no key at all, order_id
\* alone with two values, and order_id with a reason.
ArgsUniverse ==
    { <<>>,
      [k \in {"order_id"} |-> 1],
      [k \in {"order_id"} |-> 2],
      [k \in {"order_id", "reason"} |-> 1] }

\* The catalogs the loader is given: no domain at all, or the retail domain
\* with one tool whose first action had the keys of the list.
Catalogs ==
    { <<>> } \cup
    { [d \in {"retail"} |-> [t \in {"get_order_details"} |-> ks]] :
        ks \in { <<>>, <<"order_id">>, <<"order_id", "reason">> } }

SeqsUpTo(S, n) == UNION { [1..k -> S] : k \in 0..n }

Min(a, b) == IF a <= b THEN a ELSE b
Max(a, b) == IF a >= b THEN a ELSE b

-----------------------------------------------------------------------------
(* ToolSchemaLoader.get_tool_schema: two dict.get calls with defaults;      *)

(* self is the loader, that is its schemas dict.                            *)

\* Mutant: a lookup that misses falls back to a one-key schema.
get_tool_schema_nodefault(self, dom, tool) ==
    IF dom \in DOMAIN self /\ tool \in DOMAIN self[dom]
    THEN self[dom][tool]
    ELSE <<"order_id">>

get_tool_schema(self, dom, tool) ==
    LET domain_schemas == IF dom \in DOMAIN self THEN self[dom] ELSE <<>>
    IN  IF tool \in DOMAIN domain_schemas THEN domain_schemas[tool] ELSE <<>>

(* all(k in exp_args and k in act_args and exp_args[k] == act_args[k]      *)
(*     for k in keys): the keys are visited in list order and the first    *)
(* failing key ends the scan.                                              *)
RECURSIVE all_keys_match(_, _, _, _)
all_keys_match(keys, i, exp_args, act_args) ==
    IF i > Len(keys) THEN TRUE
    ELSE IF /\ keys[i] \in DOMAIN exp_args
            /\ keys[i] \in DOMAIN act_args
            /\ exp_args[keys[i]] = act_args[keys[i]]
         THEN all_keys_match(keys, i + 1, exp_args, act_args)
         ELSE FALSE

\* Mutant: dict.get on both sides, so a key missing from both compares
\* None == None.
RECURSIVE all_keys_match_get(_, _, _, _)
all_keys_match_get(keys, i, exp_args, act_args) ==
    IF i > Len(keys) THEN TRUE
    ELSE IF \/ (keys[i] \notin DOMAIN exp_args /\ keys[i] \notin DOMAIN act_args)
            \/ /\ keys[i] \in DOMAIN exp_args
               /\ keys[i] \in DOMAIN act_args
               /\ exp_args[keys[i]] = act_args[keys[i]]
         THEN all_keys_match_get(keys, i + 1, exp_args, act_args)
         ELSE FALSE

\* Mutant: a key the expected invocation does not give is not compared.
RECURSIVE all_keys_match_wild(_, _, _, _)
all_keys_match_wild(keys, i, exp_args, act_args) ==
    IF i > Len(keys) THEN TRUE
    ELSE IF \/ keys[i] \notin DOMAIN exp_args
            \/ /\ keys[i] \in DOMAIN act_args
               /\ exp_args[keys[i]] = act_args[keys[i]]
         THEN all_keys_match_wild(keys, i + 1, exp_args, act_args)
         ELSE FALSE

_args_match_get(self, name, exp_args, act_args, dom) ==
    all_keys_match_get(get_tool_schema(self, dom, name), 1, exp_args, act_args)

_args_match_wild(self, name, exp_args, act_args, dom) ==
    all_keys_match_wild(get_tool_schema(self, dom, name), 1, exp_args, act_args)

\* PerToolPRFMetric._args_match and ToolCriticalityMetric._args_match (the
\* same text); self is the schema loader the metric was built with.
_args_match(self, name, exp_args, act_args, dom) ==
    all_keys_match(get_tool_schema(self, dom, name), 1, exp_args, act_args)

-----------------------------------------------------------------------------
(* PerToolPRFMetric._greedy_match_tools.                                   *)

\* Mutant: the scan does not look at used[j].
RECURSIVE first_match_reuse(_, _, _, _, _, _, _)
first_match_reuse(self, gt_args, exl, usd, tool, dom, j) ==
    IF j > Len(exl) THEN 0
    ELSE IF _args_match(self, tool, gt_args, exl[j], dom) THEN j
    ELSE first_match_reuse(self, gt_args, exl, usd, tool, dom, j + 1)

\* Mutant: the scan keeps the last unused executed invocation that matches.
RECURSIVE first_match_last(_, _, _, _, _, _, _)
first_match_last(self, gt_args, exl, usd, tool, dom, j) ==
    IF j > Len(exl) THEN 0
    ELSE LET later == first_match_last(self, gt_args, exl, usd, tool, dom, j + 1)
         IN  IF later # 0 THEN later
             ELSE IF ~usd[j] /\ _args_match(self, tool, gt_args, exl[j], dom) THEN j
             ELSE 0

\* The inner scan: the first j with not used[j] and _args_match, else None.
RECURSIVE first_match(_, _, _, _, _, _, _)
first_match(self, gt_args, exl, usd, tool, dom, j) ==
    IF j > Len(exl) THEN 0
    ELSE IF ~usd[j] /\ _args_match(self, tool, gt_args, exl[j], dom) THEN j
    ELSE first_match(self, gt_args, exl, usd, tool, dom, j + 1)

\* One iteration of "for gt_args in gt_list": the new (tp, used).
greedy_body(self, gt_args, exl, usd, cnt, tool, dom) ==
    LET match_idx == first_match(self, gt_args, exl, usd, tool, dom, 1)
    IN  IF match_idx # 0
        THEN [tp |-> cnt + 1, used |-> [usd EXCEPT ![match_idx] = TRUE]]
        ELSE [tp |-> cnt, used |-> usd]

RECURSIVE greedy_loop(_, _, _, _, _, _, _, _)
greedy_loop(self, gtl, exl, i, usd, cnt, tool, dom) ==
    IF i > Len(gtl) THEN cnt
    ELSE LET s == greedy_body(self, gtl[i], exl, usd, cnt, tool, dom)
         IN  greedy_loop(self, gtl, exl, i + 1, s.used, s.tp, tool, dom)

\* Mutant: no used marks, every expected invocation with some matching
\* executed one is counted.
_greedy_match_tools_any(self, gtl, exl, tool, dom) ==
    Cardinality({ i \in DOMAIN gtl :
                    \E j \in DOMAIN exl : _args_match(self, tool, gtl[i], exl[j], dom) })

\* The whole call, as PerToolPRFMetric.calculate uses it.
_greedy_match_tools(self, gtl, exl, tool, dom) ==
    greedy_loop(self, gtl, exl, 1, [j \in 1..Len(exl) |-> FALSE], 0, tool, dom)

\* The call, one loop iteration per step.
InitMatch ==
    /\ schemas \in Catalogs
    /\ domain \in {"retail", "airline"}
    /\ tool_name \in {"get_order_details", "calculate"}
    /\ gt_list \in SeqsUpTo(ArgsUniverse, MaxGt)
    /\ ex_list \in SeqsUpTo(ArgsUniverse, MaxEx)
    /\ used = [j \in 1..Len(ex_list) |-> FALSE]
    /\ tp = 0
    /\ gi = 1
    /\ matched_count = -1
    /\ pc = "match_loop"
    /\ IdlePRF
    /\ IdleSeq
    /\ IdleTCI
    /\ IdleCplx
    /\ IdlePrep
    /\ IdleLoad

MatchStep ==
    /\ pc = "match_loop"
    /\ gi <= Len(gt_list)
    /\ LET s == greedy_body(schemas, gt_list[gi], ex_list, used, tp, tool_name, domain)
       IN  /\ tp' = s.tp
           /\ used' = s.used
    /\ gi' = gi + 1
    /\ UNCHANGED <<pc, schemas, tool_name, domain, gt_list, ex_list, matched_count>>
    /\ UNCHANGED <<prfVars, seqVars>>
    /\ UNCHANGED <<tciVars, cplxVars>>
    /\ UNCHANGED <<prepVars, loadVars>>

MatchReturn ==
    /\ pc = "match_loop"
    /\ gi > Len(gt_list)
    /\ matched_count' = tp
    /\ pc' = "match_done"
    /\ UNCHANGED <<schemas, tool_name, domain, gt_list, ex_list, used, tp, gi>>
    /\ UNCHANGED <<prfVars, seqVars>>
    /\ UNCHANGED <<tciVars, cplxVars>>
    /\ UNCHANGED <<prepVars, loadVars>>

NextMatch == MatchStep \/ MatchReturn

SpecMatch == InitMatch /\ [][NextMatch]_vars

-----------------------------------------------------------------------------
(* Floating-point values, as the tables hold them: a number (an exact      *)
(* fraction in lowest terms), NaN or inf.  Only non-negative numbers arise. *)

RECURSIVE GCD(_, _)
GCD(a, b) == IF b = 0 THEN a ELSE GCD(b, a % b)

NaN == [kind |-> "nan", num |-> 0, den |-> 1]
Inf == [kind |-> "inf", num |-> 0, den |-> 1]
Frac(n, d) == LET g == GCD(n, d) IN [kind |-> "num", num |-> n \div g, den |-> d \div g]
Float(n) == Frac(n, 1)

IsZero(x) == x.kind = "num" /\ x.num = 0

\* Series.replace(0, np.nan)
replace_0_nan(x) == IF IsZero(x) THEN NaN ELSE x

\* x / y of two float Series: 0/0 is NaN and n/0 is inf, nothing raises.
truediv(x, y) ==
    IF x.kind = "nan" \/ y.kind = "nan" THEN NaN
    ELSE IF y.kind = "inf" THEN (IF x.kind = "inf" THEN NaN ELSE Float(0))
    ELSE IF x.kind = "inf" THEN Inf
    ELSE IF y.num = 0 THEN (IF x.num = 0 THEN NaN ELSE Inf)
    ELSE Frac(x.num * y.den, x.den * y.num)

\* Mutant: a division guarded to give 0 where it is undefined.
truediv_or_0(x, y) ==
    IF x.kind # "num" \/ y.kind # "num" \/ y.num = 0 THEN Float(0)
    ELSE Frac(x.num * y.den, x.den * y.num)

mul(x, y) ==
    IF x.kind = "nan" \/ y.kind = "nan" THEN NaN
    ELSE IF x.kind = "inf" \/ y.kind = "inf"
         THEN (IF IsZero(x) \/ IsZero(y) THEN NaN ELSE Inf)
    ELSE Frac(x.num * y.num, x.den * y.den)

add(x, y) ==
    IF x.kind = "nan" \/ y.kind = "nan" THEN NaN
    ELSE IF x.kind = "inf" \/ y.kind = "inf" THEN Inf
    ELSE Frac(x.num * y.den + y.num * x.den, x.den * y.den)

-----------------------------------------------------------------------------
(* PerToolPRFMetric.calculate over a dataset the preparer has built.       *)

MaxConvs == 2   \* most conversations in a dataset
MaxCalls == 4   \* most tool invocations (expected and executed) in a dataset

\* The invocations the conversations are made of.  The preparer and the task
\* loader always set "name" and "arguments"; a tool call without a name gets
\* the name "".
Invocations ==
    { [name |-> "get_order_details", arguments |-> [k \in {"order_id"} |-> 1]],
      [name |-> "get_order_details", arguments |-> [k \in {"order_id"} |-> 2]],
      [name |-> "", arguments |-> <<>>] }

\* All tool names, in the order sorting puts them.
SortedNames == <<"", "calculate", "cancel_pending_order", "get_order_details">>

PRFCatalogs ==
    { <<>>,
      [d \in {"retail"} |-> [t \in {"get_order_details"} |-> <<"order_id">>]] }

\* The number of invocations of a dataset.
RECURSIVE CallsOf(_)
CallsOf(d) ==
    IF d = <<>> THEN 0
    ELSE Len(d[1].gt_tools) + Len(d[1].executed_tools) + CallsOf(Tail(d))

\* group_tools_by_name: name -> the arguments of its invocations, in order.
group_tools_by_name(tools) ==
    [n \in { tools[i].name : i \in DOMAIN tools } |->
        LET sel == SelectSeq(tools, LAMBDA x : x.name = n)
        IN  [i \in 1..Len(sel) |-> sel[i].arguments]]

\* grouped[tool] of a defaultdict(list)
dd_get(grouped, tool) == IF tool \in DOMAIN grouped THEN grouped[tool] ELSE <<>>

\* Mutant: only the expected plan's names are visited.
all_tools_gt_only(gt_by_name, ex_by_name) == DOMAIN gt_by_name

\* set(list(gt_by_name.keys()) + list(ex_by_name.keys()))
all_tools(gt_by_name, ex_by_name) == DOMAIN gt_by_name \cup DOMAIN ex_by_name

\* Mutant: fn and fp taken from the wrong list.
prf_row_swapped(self, tool, gtl, exl, dom) ==
    LET m == _greedy_match_tools(self, gtl, exl, tool, dom)
    IN  [tool |-> tool, tp |-> m,
         fp |-> Max(0, Len(gtl) - m),
         fn |-> Max(0, Len(exl) - m),
         requires_tool |-> IF Len(gtl) > 0 THEN 1 ELSE 0]

\* Mutant: requires_tool is 1 in every row.
prf_row_requires_1(self, tool, gtl, exl, dom) ==
    LET m == _greedy_match_tools(self, gtl, exl, tool, dom)
    IN  [tool |-> tool, tp |-> m,
         fp |-> Max(0, Len(exl) - m),
         fn |-> Max(0, Len(gtl) - m),
         requires_tool |-> 1]

\* The dict appended for one tool of one conversation.
prf_row(self, tool, gtl, exl, dom) ==
    LET m == _greedy_match_tools(self, gtl, exl, tool, dom)
    IN  [tool |-> tool, tp |-> m,
         fp |-> Max(0, Len(exl) - m),
         fn |-> Max(0, Len(gtl) - m),
         requires_tool |-> IF Len(gtl) > 0 THEN 1 ELSE 0]

\* The orders a for loop may visit a set in.
Orders(S) ==
    { f \in [1..Cardinality(S) -> S] : \A i, j \in DOMAIN f : i # j => f[i] # f[j] }

RECURSIVE SumCol(_, _, _)
SumCol(rs, tool, col) ==
    IF rs = <<>> THEN 0
    ELSE (IF rs[1].tool = tool THEN rs[1][col] ELSE 0) + SumCol(Tail(rs), tool, col)

RECURSIVE LastCol(_, _, _)
LastCol(rs, tool, col) ==
    IF rs = <<>> THEN 0
    ELSE IF rs[Len(rs)].tool = tool THEN rs[Len(rs)][col]
    ELSE LastCol(SubSeq(rs, 1, Len(rs) - 1), tool, col)

\* Mutant: groupby("tool").last(), each tool keeps the counts of its last row.
groupby_tool_last(rs) ==
    LET keys == SelectSeq(SortedNames, LAMBDA t : \E i \in DOMAIN rs : rs[i].tool = t)
    IN  [i \in 1..Len(keys) |->
            [tool |-> keys[i],
             tp |-> LastCol(rs, keys[i], "tp"),
             fp |-> LastCol(rs, keys[i], "fp"),
             fn |-> LastCol(rs, keys[i], "fn"),
             requires_tool |-> LastCol(rs, keys[i], "requires_tool")]]

\* pd.DataFrame(rows).groupby("tool").sum(numeric_only=True): one row per
\* tool of rows, sorted by tool.
groupby_tool_sum(rs) ==
    LET keys == SelectSeq(SortedNames, LAMBDA t : \E i \in DOMAIN rs : rs[i].tool = t)
    IN  [i \in 1..Len(keys) |->
            [tool |-> keys[i],
             tp |-> SumCol(rs, keys[i], "tp"),
             fp |-> SumCol(rs, keys[i], "fp"),
             fn |-> SumCol(rs, keys[i], "fn"),
             requires_tool |-> SumCol(rs, keys[i], "requires_tool")]]

\* The dicts one iteration of the loop of calculate appends, the tools visited
\* in the given order.
conversation_rows(self, row, order) ==
    LET gt_by_name == group_tools_by_name(row.gt_tools)
        ex_by_name == group_tools_by_name(row.executed_tools)
    IN  [i \in DOMAIN order |->
            prf_row(self, order[i], dd_get(gt_by_name, order[i]),
                    dd_get(ex_by_name, order[i]), row.domain)]

\* rows after the loop of calculate over the dataset d, each conversation's
\* tools visited in one of the possible orders.
RECURSIVE calculate_rows(_, _)
calculate_rows(self, d) ==
    IF d = <<>> THEN <<>>
    ELSE LET row == d[Len(d)]
             names == all_tools(group_tools_by_name(row.gt_tools),
                                group_tools_by_name(row.executed_tools))
             order == CHOOSE o \in Orders(names) : TRUE
         IN  calculate_rows(self, SubSeq(d, 1, Len(d) - 1))
                 \o conversation_rows(self, row, order)

\* The aggregated frame of calculate on the dataset d (line 86), defined
\* where rows is not empty.
calculate_agg(self, d) == groupby_tool_sum(calculate_rows(self, d))

\* Mutant: undefined ratios filled with 0.
prf_metrics_fill_0(r) ==
    LET precision == truediv_or_0(Float(r.tp), replace_0_nan(Float(r.tp + r.fp)))
        recall == truediv_or_0(Float(r.tp), replace_0_nan(Float(r.tp + r.fn)))
    IN  [tool |-> r.tool, tp |-> r.tp, fp |-> r.fp, fn |-> r.fn,
         requires_tool |-> r.requires_tool,
         precision |-> precision,
         recall |-> recall,
         f1 |-> truediv_or_0(mul(Float(2), mul(precision, recall)), add(precision, recall)),
         omission_rate |-> truediv_or_0(Float(r.fn), replace_0_nan(Float(r.requires_tool)))]

\* _calculate_prf_metrics, on one row of the aggregated frame.
prf_metrics(r) ==
    LET precision == truediv(Float(r.tp), replace_0_nan(Float(r.tp + r.fp)))
        recall == truediv(Float(r.tp), replace_0_nan(Float(r.tp + r.fn)))
    IN  [tool |-> r.tool, tp |-> r.tp, fp |-> r.fp, fn |-> r.fn,
         requires_tool |-> r.requires_tool,
         precision |-> precision,
         recall |-> recall,
         f1 |-> truediv(mul(Float(2), mul(precision, recall)), add(precision, recall)),
         omission_rate |-> truediv(Float(r.fn), replace_0_nan(Float(r.requires_tool)))]

_calculate_prf_metrics(agg) == [i \in DOMAIN agg |-> prf_metrics(agg[i])]

InitPRF ==
    /\ schemas \in PRFCatalogs
    /\ pc = "prepare"
    /\ IdleMatch
    /\ IdlePRF
    /\ IdleSeq
    /\ IdleTCI
    /\ IdleCplx
    /\ IdlePrep
    /\ IdleLoad

\* DataPreparer.prepare_conversation_data: one more record of the dataset,
\* made of the invocations of U, with exp_plan_len the length of the plan.
Prepare(U) ==
    /\ pc = "prepare"
    /\ Len(df) < MaxConvs
    /\ \E gt \in SeqsUpTo(U, MaxCalls - CallsOf(df)) :
         \E ex \in SeqsUpTo(U, MaxCalls - CallsOf(df) - Len(gt)) :
            df' = Append(df, [domain |-> "retail",
                              success |-> TRUE,
                              exp_plan_len |-> Len(gt),
                              gt_tools |-> gt,
                              executed_tools |-> ex])
    /\ UNCHANGED <<pc, schemas, idx, rows, prf_table>>
    /\ UNCHANGED <<matchVars, seqVars>>
    /\ UNCHANGED <<tciVars, cplxVars>>
    /\ UNCHANGED <<prepVars, loadVars>>

PrepareConversation == Prepare(Invocations)

\* calculate is called: rows = []
PRFStart ==
    /\ pc = "prepare"
    /\ pc' = "prf_rows"
    /\ idx' = 1
    /\ rows' = <<>>
    /\ UNCHANGED <<schemas, df, prf_table>>
    /\ UNCHANGED <<matchVars, seqVars>>
    /\ UNCHANGED <<tciVars, cplxVars>>
    /\ UNCHANGED <<prepVars, loadVars>>

\* One iteration of "for _, row in df.iterrows()".
PRFIterRow ==
    /\ pc = "prf_rows"
    /\ idx <= Len(df)
    /\ LET row == df[idx]
           gt_by_name == group_tools_by_name(row.gt_tools)
           ex_by_name == group_tools_by_name(row.executed_tools)
       IN  \E order \in Orders(all_tools(gt_by_name, ex_by_name)) :
              rows' = rows \o conversation_rows(schemas, row, order)
    /\ idx' = idx + 1
    /\ UNCHANGED <<pc, schemas, df, prf_table>>
    /\ UNCHANGED <<matchVars, seqVars>>
    /\ UNCHANGED <<tciVars, cplxVars>>
    /\ UNCHANGED <<prepVars, loadVars>>

\* The loop is over and rows is not empty: group, sum, derive the metrics.
PRFAggregate ==
    /\ pc = "prf_rows"
    /\ idx > Len(df)
    /\ rows # <<>>
    /\ prf_table' = _calculate_prf_metrics(groupby_tool_sum(rows))
    /\ pc' = "prf_done"
    /\ UNCHANGED <<schemas, df, idx, rows>>
    /\ UNCHANGED <<matchVars, seqVars>>
    /\ UNCHANGED <<tciVars, cplxVars>>
    /\ UNCHANGED <<prepVars, loadVars>>

\* The loop is over and rows is empty: pd.DataFrame([]) has no "tool" column
\* and groupby("tool") raises KeyError.
PRFRaise ==
    /\ pc = "prf_rows"
    /\ idx > Len(df)
    /\ rows = <<>>
    /\ pc' = "prf_raised"
    /\ UNCHANGED <<schemas, df, idx, rows, prf_table>>
    /\ UNCHANGED <<matchVars, seqVars>>
    /\ UNCHANGED <<tciVars, cplxVars>>
    /\ UNCHANGED <<prepVars, loadVars>>

NextPRF == PrepareConversation \/ PRFStart \/ PRFIterRow \/ PRFAggregate \/ PRFRaise

SpecPRF == InitPRF /\ [][NextPRF]_vars

-----------------------------------------------------------------------------
(* utils.levenshtein and utils.tool_seq.                                   *)

\* Mutant: the diagonal cell (keep or substitute) is not considered.
Min3_no_diag(a, b, c) == Min(a, b)

Min3(a, b, c) == Min(a, Min(b, c))

\* The table after the two border loops: dp[i][0] = i and dp[0][j] = j.
lev_borders(m, n) ==
    [i \in 0..m, j \in 0..n |-> IF j = 0 THEN i ELSE IF i = 0 THEN j ELSE 0]

\* The nested loops from cell (i, j) on; del is the cost added to
\* dp[i-1][j], which is 1 in the code.
RECURSIVE lev_fill(_, _, _, _, _, _)
lev_fill(a, b, dp, i, j, del) ==
    IF i > Len(a) THEN dp
    ELSE IF j > Len(b) THEN lev_fill(a, b, dp, i + 1, 1, del)
    ELSE LET cost == IF a[i] = b[j] THEN 0 ELSE 1
             cell == Min3(dp[i - 1, j] + del, dp[i, j - 1] + 1, dp[i - 1, j - 1] + cost)
         IN  lev_fill(a, b, [dp EXCEPT ![i, j] = cell], i, j + 1, del)

\* Mutant: dropping an element of a costs 2.
levenshtein_del2(a, b) ==
    lev_fill(a, b, lev_borders(Len(a), Len(b)), 1, 1, 2)[Len(a), Len(b)]

\* Mutant: only the difference of the two lengths is counted.
levenshtein_len(a, b) ==
    IF Len(a) > Len(b) THEN Len(a) - Len(b) ELSE Len(b) - Len(a)

levenshtein(a, b) ==
    lev_fill(a, b, lev_borders(Len(a), Len(b)), 1, 1, 1)[Len(a), Len(b)]

\* [x.get("name", "") for x in (lst or []) if x.get("name")]
RECURSIVE tool_seq(_)
tool_seq(lst) ==
    IF lst = <<>> THEN <<>>
    ELSE (IF lst[1].name # "" THEN <<lst[1].name>> ELSE <<>>) \o tool_seq(Tail(lst))

-----------------------------------------------------------------------------
(* SequenceComplianceMetric.calculate.                                     *)

\* The invocations of the sequence datasets: two tools and a nameless call.
NamedInvocations ==
    { [name |-> "get_order_details", arguments |-> <<>>],
      [name |-> "cancel_pending_order", arguments |-> <<>>],
      [name |-> "", arguments |-> <<>>] }

\* {name: i for i, name in enumerate(ex_names)}: a later position of a name
\* overwrites an earlier one.
RECURSIVE ex_index_from(_, _, _)
ex_index_from(names, i, index) ==
    IF i > Len(names) THEN index
    ELSE ex_index_from(names, i + 1,
             [n \in DOMAIN index \cup {names[i]} |->
                 IF n = names[i] THEN i - 1 ELSE index[n]])

ex_index_of(names) == ex_index_from(names, 1, <<>>)

\* Mutant: the signed offset.
Abs_signed(x) == x

Abs(x) == IF x < 0 THEN -x ELSE x

\* pos_dev: abs(ex_index[name] - i) for the names of gt_names in ex_index.
RECURSIVE pos_dev_from(_, _, _)
pos_dev_from(gtn, i, ex_index) ==
    IF i > Len(gtn) THEN <<>>
    ELSE (IF gtn[i] \in DOMAIN ex_index
          THEN <<Abs(ex_index[gtn[i]] - (i - 1))>> ELSE <<>>)
             \o pos_dev_from(gtn, i + 1, ex_index)

RECURSIVE SeqSum(_)
SeqSum(q) == IF q = <<>> THEN 0 ELSE q[1] + SeqSum(Tail(q))

\* np.mean(pos_dev) if pos_dev else np.nan
mean_or_nan(q) == IF q # <<>> THEN Frac(SeqSum(q), Len(q)) ELSE NaN

InitSeq ==
    /\ schemas = <<>>
    /\ pc = "prepare"
    /\ IdleMatch
    /\ IdlePRF
    /\ IdleSeq
    /\ IdleTCI
    /\ IdleCplx
    /\ IdlePrep
    /\ IdleLoad

PrepareNamedConversation == Prepare(NamedInvocations)

\* calculate is called: rows = []
SeqStart ==
    /\ pc = "prepare"
    /\ pc' = "seq_rows"
    /\ idx' = 1
    /\ seq_rows' = <<>>
    /\ UNCHANGED <<schemas, df, rows, prf_table, gt_names, ex_names, ped>>
    /\ UNCHANGED matchVars
    /\ UNCHANGED <<tciVars, cplxVars>>
    /\ UNCHANGED <<prepVars, loadVars>>

\* One iteration of "for _, row in df.iterrows()".
SeqIterRow ==
    /\ pc = "seq_rows"
    /\ idx <= Len(df)
    /\ LET row == df[idx]
           gtn == tool_seq(row.gt_tools)
           exn == tool_seq(row.executed_tools)
           d == levenshtein(gtn, exn)
           pos_dev == pos_dev_from(gtn, 1, ex_index_of(exn))
       IN  /\ gt_names' = gtn
           /\ ex_names' = exn
           /\ ped' = d
           /\ seq_rows' = Append(seq_rows,
                 [success |-> IF row.success THEN 1 ELSE 0,
                  nPED |-> Frac(d, Max(1, Len(gtn))),
                  PD |-> mean_or_nan(pos_dev),
                  exp_plan_len |-> row.exp_plan_len,
                  domain |-> row.domain])
    /\ idx' = idx + 1
    /\ UNCHANGED <<pc, schemas, df, rows, prf_table>>
    /\ UNCHANGED matchVars
    /\ UNCHANGED <<tciVars, cplxVars>>
    /\ UNCHANGED <<prepVars, loadVars>>

\* return pd.DataFrame(rows)
SeqReturn ==
    /\ pc = "seq_rows"
    /\ idx > Len(df)
    /\ pc' = "seq_done"
    /\ UNCHANGED <<schemas, df, idx, rows, prf_table>>
    /\ UNCHANGED <<matchVars, seqVars>>
    /\ UNCHANGED <<tciVars, cplxVars>>
    /\ UNCHANGED <<prepVars, loadVars>>

NextSeq == PrepareNamedConversation \/ SeqStart \/ SeqIterRow \/ SeqReturn

SpecSeq == InitSeq /\ [][NextSeq]_vars

-----------------------------------------------------------------------------
(* ToolCriticalityMetric.calculate (the plain table) and                   *)
(* MetricsCalculator.calculate_tool_criticality (the table with confidence *)
(* intervals).                                                             *)

MaxTCIConvs == 2   \* most conversations in a tool-criticality dataset
MaxTCICalls == 3   \* most tool invocations in a tool-criticality dataset

\* The invocations of the tool-criticality datasets.
TCIInvocations ==
    { [name |-> "get_order_details", arguments |-> [k \in {"order_id"} |-> 1]],
      [name |-> "get_order_details", arguments |-> [k \in {"order_id"} |-> 2]],
      [name |-> "", arguments |-> <<>>] }

\* MetricsCalculator.KEY_ARGS
KEY_ARGS ==
    [n \in {"get_order_details", "cancel_pending_order",
            "return_delivered_order_items", "exchange_delivered_order_items",
            "modify_pending_order_items", "modify_pending_order_address",
            "find_user_id_by_email", "find_user_id_by_name_zip",
            "get_user_details", "get_product_details", "calculate"} |->
        CASE n = "get_order_details" -> <<"order_id">>
          [] n = "cancel_pending_order" -> <<"order_id", "reason">>
          [] n = "return_delivered_order_items" -> <<"order_id", "item_ids">>
          [] n = "exchange_delivered_order_items" -> <<"order_id", "item_ids", "new_item_ids">>
          [] n = "modify_pending_order_items" -> <<"order_id", "item_ids", "new_item_ids">>
          [] n = "modify_pending_order_address" -> <<"order_id", "address1", "city", "state", "zip">>
          [] n = "find_user_id_by_email" -> <<"email">>
          [] n = "find_user_id_by_name_zip" -> <<"first_name", "last_name", "zip">>
          [] n = "get_user_details" -> <<"user_id">>
          [] n = "get_product_details" -> <<"product_id">>
          [] n = "calculate" -> <<"expression">>]

\* all(k in exp_args and k in act_args and exp_args[k] == act_args[k]
\*     for k in keys)
all_keys_equal(keys, exp_args, act_args) ==
    \A i \in DOMAIN keys :
        /\ keys[i] \in DOMAIN exp_args
        /\ keys[i] \in DOMAIN act_args
        /\ exp_args[keys[i]] = act_args[keys[i]]

\* Mutant: the arguments are not compared.
tci_args_match_any(self, name, exp_args, act_args, dom) == TRUE

\* ToolCriticalityMetric._args_match
tci_args_match(self, name, exp_args, act_args, dom) ==
    all_keys_equal(get_tool_schema(self, dom, name), exp_args, act_args)

\* MetricsCalculator._args_match: keys = self.KEY_ARGS.get(name, [])
mc_args_match(name, exp_args, act_args) ==
    all_keys_equal(IF name \in DOMAIN KEY_ARGS THEN KEY_ARGS[name] ELSE <<>>,
                   exp_args, act_args)

\* [g.get("name", "") for g in gt_tools], as the set the loop runs over
gt_name_set(gt_tools) == { gt_tools[i].name : i \in DOMAIN gt_tools }

\* Mutant: correct only if every expected invocation of the tool has a
\* matching executed one.
tci_correct_all(self, tool, gt_tools, executed_tools, dom) ==
    IF \A i \in DOMAIN gt_tools :
          gt_tools[i].name = tool =>
             \E j \in DOMAIN executed_tools :
                /\ executed_tools[j].name = tool
                /\ tci_args_match(self, tool, gt_tools[i].arguments,
                                  executed_tools[j].arguments, dom)
    THEN 1 ELSE 0

\* The loop over gt_args_list with its break: correct = 1 as soon as one
\* expected invocation of the tool has any() matching executed invocation of
\* the same name.
tci_correct(self, tool, gt_tools, executed_tools, dom) ==
    IF \E i \in DOMAIN gt_tools :
          /\ gt_tools[i].name = tool
          /\ \E j \in DOMAIN executed_tools :
                /\ executed_tools[j].name = tool
                /\ tci_args_match(self, tool, gt_tools[i].arguments,
                                  executed_tools[j].arguments, dom)
    THEN 1 ELSE 0

\* The same loop of MetricsCalculator.calculate_tool_criticality.
mc_correct(tool, gt_tools, executed_tools) ==
    IF \E i \in DOMAIN gt_tools :
          /\ gt_tools[i].name = tool
          /\ \E j \in DOMAIN executed_tools :
                /\ executed_tools[j].name = tool
                /\ mc_args_match(tool, gt_tools[i].arguments,
                                 executed_tools[j].arguments)
    THEN 1 ELSE 0

\* The flag rows one conversation appends, the set of its expected names
\* being iterated in the given order.
tci_flag_rows(self, row, order) ==
    [i \in DOMAIN order |->
        [tool |-> order[i],
         correct |-> tci_correct(self, order[i], row.gt_tools,
                                 row.executed_tools, row.domain),
         success |-> IF row.success THEN 1 ELSE 0]]

mc_flag_rows(row, order) ==
    [i \in DOMAIN order |->
        [tool |-> order[i],
         correct |-> mc_correct(order[i], row.gt_tools, row.executed_tools),
         success |-> IF row.success THEN 1 ELSE 0]]

\* f["tool"].unique(): the tools in the order of their first flag row.
RECURSIVE unique_tools(_, _)
unique_tools(f, seen) ==
    IF f = <<>> THEN seen
    ELSE unique_tools(Tail(f),
            IF \E i \in DOMAIN seen : seen[i] = f[1].tool
            THEN seen ELSE Append(seen, f[1].tool))

\* tool_data[tool_data["correct"] == c]
flags_of(f, tool, c) ==
    SelectSeq(f, LAMBDA r : r.tool = tool /\ r.correct = c)

RECURSIVE success_sum(_)
success_sum(f) == IF f = <<>> THEN 0 ELSE f[1].success + success_sum(Tail(f))

\* Series.mean() of the success column of a non-empty selection
success_mean(f) == Frac(success_sum(f), Len(f))

\* x - y of two floats
sub(x, y) ==
    IF x.kind = "nan" \/ y.kind = "nan" THEN NaN
    ELSE IF x.kind = "inf" \/ y.kind = "inf" THEN (IF x.kind = y.kind THEN NaN ELSE Inf)
    ELSE Frac(x.num * y.den - y.num * x.den, x.den * y.den)

\* Mutant: the two partitions swapped.
tci_row_swapped(f, tool) ==
    LET correct_data == flags_of(f, tool, 0)
        incorrect_data == flags_of(f, tool, 1)
        n_correct == Len(correct_data)
        n_incorrect == Len(incorrect_data)
        p_correct == IF n_correct > 0 THEN success_mean(correct_data) ELSE Float(0)
        p_incorrect == IF n_incorrect > 0 THEN success_mean(incorrect_data) ELSE Float(0)
    IN  [tool |-> tool, TCI |-> sub(p_correct, p_incorrect),
         p_correct |-> p_correct, p_incorrect |-> p_incorrect,
         n_correct |-> n_correct, n_incorrect |-> n_incorrect]

\* Mutant: the two rates added.
tci_row_sum(f, tool) ==
    LET correct_data == flags_of(f, tool, 1)
        incorrect_data == flags_of(f, tool, 0)
        n_correct == Len(correct_data)
        n_incorrect == Len(incorrect_data)
        p_correct == IF n_correct > 0 THEN success_mean(correct_data) ELSE Float(0)
        p_incorrect == IF n_incorrect > 0 THEN success_mean(incorrect_data) ELSE Float(0)
    IN  [tool |-> tool, TCI |-> add(p_correct, p_incorrect),
         p_correct |-> p_correct, p_incorrect |-> p_incorrect,
         n_correct |-> n_correct, n_incorrect |-> n_incorrect]

\* The row of one tool in ToolCriticalityMetric.calculate.
tci_row(f, tool) ==
    LET correct_data == flags_of(f, tool, 1)
        incorrect_data == flags_of(f, tool, 0)
        n_correct == Len(correct_data)
        n_incorrect == Len(incorrect_data)
        p_correct == IF n_correct > 0 THEN success_mean(correct_data) ELSE Float(0)
        p_incorrect == IF n_incorrect > 0 THEN success_mean(incorrect_data) ELSE Float(0)
    IN  [tool |-> tool, TCI |-> sub(p_correct, p_incorrect),
         p_correct |-> p_correct, p_incorrect |-> p_incorrect,
         n_correct |-> n_correct, n_incorrect |-> n_incorrect]

\* The rows of the plain table: a tool is appended if n_correct > 0 or
\* n_incorrect > 0.
tci_rows_of(f) ==
    LET tools == SelectSeq(unique_tools(f, <<>>),
                     LAMBDA t : Len(flags_of(f, t, 1)) > 0 \/ Len(flags_of(f, t, 0)) > 0)
    IN  [i \in DOMAIN tools |-> tci_row(f, tools[i])]

\* The row of one tool in MetricsCalculator.calculate_tool_criticality.  The
\* two interval bounds are tci -/+ z * tci_se, where tci_se is computed from
\* the Wilson intervals of (k_correct, n_correct) and (k_incorrect,
\* n_incorrect) with a square root; they are kept as these arguments.
mc_tci_row(f, tool) ==
    LET correct_data == flags_of(f, tool, 1)
        incorrect_data == flags_of(f, tool, 0)
        n_correct == Len(correct_data)
        n_incorrect == Len(incorrect_data)
        p_correct == success_mean(correct_data)
        p_incorrect == success_mean(incorrect_data)
        wilson == <<success_sum(correct_data), n_correct,
                    success_sum(incorrect_data), n_incorrect>>
    IN  [tool |-> tool, TCI |-> sub(p_correct, p_incorrect),
         TCI_ci_lower |-> <<"lower", wilson>>,
         TCI_ci_upper |-> <<"upper", wilson>>,
         p_correct |-> p_correct, p_incorrect |-> p_incorrect,
         n_correct |-> n_correct, n_incorrect |-> n_incorrect]

\* The rows of the table with intervals: a tool is appended only if
\* n_correct > 0 and n_incorrect > 0.
mc_tci_rows_of(f) ==
    LET tools == SelectSeq(unique_tools(f, <<>>),
                     LAMBDA t : Len(flags_of(f, t, 1)) > 0 /\ Len(flags_of(f, t, 0)) > 0)
    IN  [i \in DOMAIN tools |-> mc_tci_row(f, tools[i])]

InitTCI ==
    /\ schemas \in PRFCatalogs
    /\ pc = "prepare"
    /\ IdleMatch
    /\ IdlePRF
    /\ IdleSeq
    /\ IdleTCI
    /\ IdleCplx
    /\ IdlePrep
    /\ IdleLoad

\* DataPreparer.prepare_conversation_data: one more record of the dataset,
\* made of invocations of TCIInvocations, the conversation having succeeded
\* or not.
PrepareOutcome ==
    /\ pc = "prepare"
    /\ Len(df) < MaxTCIConvs
    /\ \E gt \in SeqsUpTo(TCIInvocations, MaxTCICalls - CallsOf(df)) :
         \E ex \in SeqsUpTo(TCIInvocations, MaxTCICalls - CallsOf(df) - Len(gt)) :
            \E ok \in BOOLEAN :
                df' = Append(df, [domain |-> "retail",
                                  success |-> ok,
                                  exp_plan_len |-> Len(gt),
                                  gt_tools |-> gt,
                                  executed_tools |-> ex])
    /\ UNCHANGED <<pc, schemas, idx, rows, prf_table>>
    /\ UNCHANGED <<matchVars, seqVars>>
    /\ UNCHANGED <<tciVars, cplxVars>>
    /\ UNCHANGED <<prepVars, loadVars>>

\* ToolCriticalityMetric.calculate is called: flags = []
TCIStart ==
    /\ pc = "prepare"
    /\ pc' = "tci_rows"
    /\ idx' = 1
    /\ flags' = <<>>
    /\ UNCHANGED <<schemas, df, rows, prf_table, tci_table>>
    /\ UNCHANGED <<matchVars, seqVars, cplxVars>>
    /\ UNCHANGED <<prepVars, loadVars>>

\* One iteration of "for _, row in df.iterrows()"; set(gt_names) is iterated
\* in some order.
TCIIterRow ==
    /\ pc = "tci_rows"
    /\ idx <= Len(df)
    /\ \E order \in Orders(gt_name_set(df[idx].gt_tools)) :
          flags' = flags \o tci_flag_rows(schemas, df[idx], order)
    /\ idx' = idx + 1
    /\ UNCHANGED <<pc, schemas, df, rows, prf_table, tci_table>>
    /\ UNCHANGED <<matchVars, seqVars, cplxVars>>
    /\ UNCHANGED <<prepVars, loadVars>>

\* The aggregation over f = pd.DataFrame(flags), or the empty table with the
\* six columns when there is no flag row.
TCIAggregate ==
    /\ pc = "tci_rows"
    /\ idx > Len(df)
    /\ tci_table' = IF Len(flags) > 0 THEN tci_rows_of(flags) ELSE <<>>
    /\ pc' = "tci_done"
    /\ UNCHANGED <<schemas, df, idx, rows, prf_table, flags>>
    /\ UNCHANGED <<matchVars, seqVars, cplxVars>>
    /\ UNCHANGED <<prepVars, loadVars>>

\* MetricsCalculator.calculate_tool_criticality is called: flags = []
CIStart ==
    /\ pc = "prepare"
    /\ pc' = "ci_rows"
    /\ idx' = 1
    /\ flags' = <<>>
    /\ UNCHANGED <<schemas, df, rows, prf_table, tci_table>>
    /\ UNCHANGED <<matchVars, seqVars, cplxVars>>
    /\ UNCHANGED <<prepVars, loadVars>>

CIIterRow ==
    /\ pc = "ci_rows"
    /\ idx <= Len(df)
    /\ \E order \in Orders(gt_name_set(df[idx].gt_tools)) :
          flags' = flags \o mc_flag_rows(df[idx], order)
    /\ idx' = idx + 1
    /\ UNCHANGED <<pc, schemas, df, rows, prf_table, tci_table>>
    /\ UNCHANGED <<matchVars, seqVars, cplxVars>>
    /\ UNCHANGED <<prepVars, loadVars>>

CIAggregate ==
    /\ pc = "ci_rows"
    /\ idx > Len(df)
    /\ tci_table' = IF Len(flags) > 0 THEN mc_tci_rows_of(flags) ELSE <<>>
    /\ pc' = "ci_done"
    /\ UNCHANGED <<schemas, df, idx, rows, prf_table, flags>>
    /\ UNCHANGED <<matchVars, seqVars, cplxVars>>
    /\ UNCHANGED <<prepVars, loadVars>>

NextTCI ==
    \/ PrepareOutcome
    \/ TCIStart \/ TCIIterRow \/ TCIAggregate
    \/ CIStart \/ CIIterRow \/ CIAggregate

SpecTCI == InitTCI /\ [][NextTCI]_vars

-----------------------------------------------------------------------------
(* ComplexityMetrics: the plan-length weighted pass@1 and the pass@1 per   *)
(* plan-length bucket.                                                     *)

MaxCplxConvs == 4   \* most conversations in a complexity dataset

\* The plan lengths of the complexity datasets: both sides of every bin edge.
PlanLens == {0, 1, 2, 3, 5, 6}

\* The one invocation the plans of the complexity datasets are made of.
PlanStep == [name |-> "get_order_details", arguments |-> [k \in {"order_id"} |-> 1]]

\* (df["success"] * df["exp_plan_len"]).sum()
RECURSIVE wsum_of(_)
wsum_of(d) ==
    IF d = <<>> THEN 0
    ELSE (IF d[1].success THEN 1 ELSE 0) * d[1].exp_plan_len + wsum_of(Tail(d))

\* df["exp_plan_len"].sum()
RECURSIVE denom_of(_)
denom_of(d) == IF d = <<>> THEN 0 ELSE d[1].exp_plan_len + denom_of(Tail(d))

\* df["success"].sum() of a selection
RECURSIVE n_success(_)
n_success(d) ==
    IF d = <<>> THEN 0 ELSE (IF d[1].success THEN 1 ELSE 0) + n_success(Tail(d))

\* Mutant: the plain success rate.
calculate_unweighted_pass1(d) == Frac(n_success(d), Max(1, Len(d)))

\* calculate_complexity_weighted_pass1: float(wsum / max(1, denom))
calculate_complexity_weighted_pass1(d) == Frac(wsum_of(d), Max(1, denom_of(d)))

\* The upper edge 1e9 of the last bin.
LastBinEdge == 1000000000

labels == <<"simple", "medium", "complex">>

\* Mutant: bins closed on the left, [0, 2), [2, 5), [5, 1e9).
cut_left_closed(x) ==
    IF 0 <= x /\ x < 2 THEN "simple"
    ELSE IF 2 <= x /\ x < 5 THEN "medium"
    ELSE IF 5 <= x /\ x < LastBinEdge THEN "complex"
    ELSE "nan"

\* pd.cut(x, bins=[0, 2, 5, 1e9], labels=..., include_lowest=True): bins
\* closed on the right, the first one holding its left edge too; a value
\* outside all bins has no category.
cut(x) ==
    IF 0 <= x /\ x <= 2 THEN "simple"
    ELSE IF 2 < x /\ x <= 5 THEN "medium"
    ELSE IF 5 < x /\ x <= LastBinEdge THEN "complex"
    ELSE "nan"

\* The rows of df whose plan length falls in the bin of a label.
members(d, label) == SelectSeq(d, LAMBDA r : cut(r.exp_plan_len) = label)

\* df.groupby(bins)["success"].mean().rename("pass@1").reset_index(): the
\* categories in their order, the mean of an empty group being NaN.  With
\* observed = True the categories without a member have no row.
calculate_bucket_pass1(d, observed) ==
    LET kept == SelectSeq(labels, LAMBDA l : ~observed \/ members(d, l) # <<>>)
    IN  [i \in DOMAIN kept |->
            [exp_plan_len |-> kept[i],
             pass1 |-> IF members(d, kept[i]) = <<>> THEN NaN
                       ELSE Frac(n_success(members(d, kept[i])),
                                 Len(members(d, kept[i])))]]

InitCplx ==
    /\ schemas = <<>>
    /\ pc = "prepare"
    /\ IdleMatch
    /\ IdlePRF
    /\ IdleSeq
    /\ IdleTCI
    /\ IdleCplx
    /\ IdlePrep
    /\ IdleLoad

\* DataPreparer.prepare_conversation_data: one more record of the dataset,
\* with a plan of n steps (exp_plan_len = len(gt_tools)).
PrepareSized ==
    /\ pc = "prepare"
    /\ Len(df) < MaxCplxConvs
    /\ \E n \in PlanLens : \E ok \in BOOLEAN :
          df' = Append(df, [domain |-> "retail",
                            success |-> ok,
                            exp_plan_len |-> n,
                            gt_tools |-> [i \in 1..n |-> PlanStep],
                            executed_tools |-> <<>>])
    /\ UNCHANGED <<pc, schemas, idx, rows, prf_table>>
    /\ UNCHANGED <<matchVars, seqVars>>
    /\ UNCHANGED <<tciVars, cplxVars>>
    /\ UNCHANGED <<prepVars, loadVars>>

\* calculate_complexity_weighted_pass1 on a dataset with conversations.
WeightedPass1 ==
    /\ pc = "prepare"
    /\ df # <<>>
    /\ weighted_pass1' = calculate_complexity_weighted_pass1(df)
    /\ pc' = "wp1_done"
    /\ UNCHANGED <<schemas, bucket_pass1>>
    /\ UNCHANGED <<matchVars, prfVars, seqVars, tciVars>>
    /\ UNCHANGED <<prepVars, loadVars>>

\* The empty dataset is pd.DataFrame(), which has no column: df["success"]
\* raises KeyError.
WeightedPass1Raise ==
    /\ pc = "prepare"
    /\ df = <<>>
    /\ pc' = "wp1_raised"
    /\ UNCHANGED <<schemas, cplxVars>>
    /\ UNCHANGED <<matchVars, prfVars, seqVars, tciVars>>
    /\ UNCHANGED <<prepVars, loadVars>>

\* calculate_bucket_pass1 on a dataset with conversations.  groupby is called
\* without "observed", whose default is False in pandas 1 and 2 and True in
\* pandas 3; the code runs on whichever is installed.
BucketPass1 ==
    /\ pc = "prepare"
    /\ df # <<>>
    /\ \E observed \in BOOLEAN :
          bucket_pass1' = calculate_bucket_pass1(df, observed)
    /\ pc' = "bucket_done"
    /\ UNCHANGED <<schemas, weighted_pass1>>
    /\ UNCHANGED <<matchVars, prfVars, seqVars, tciVars>>
    /\ UNCHANGED <<prepVars, loadVars>>

\* On the empty dataset df["exp_plan_len"] raises KeyError.
BucketPass1Raise ==
    /\ pc = "prepare"
    /\ df = <<>>
    /\ pc' = "bucket_raised"
    /\ UNCHANGED <<schemas, cplxVars>>
    /\ UNCHANGED <<matchVars, prfVars, seqVars, tciVars>>
    /\ UNCHANGED <<prepVars, loadVars>>

NextCplx ==
    \/ PrepareSized
    \/ WeightedPass1 \/ WeightedPass1Raise
    \/ BucketPass1 \/ BucketPass1Raise

SpecCplx == InitCplx /\ [][NextCplx]_vars

-----------------------------------------------------------------------------
(* The analyzers called on a dataset the caller built itself, whose        *)
(* gt_tools and executed_tools may hold an entry that is not a mapping.    *)

MaxRawConvs == 2   \* most conversations in such a dataset
MaxRawCalls == 3   \* most entries in such a dataset

\* The entries: two invocations (Python dicts) and a value of another type
\* (a string, None, a list), which has no method "get"; the name and
\* arguments fields of the latter are never read.
RawEntries ==
    { [kind |-> "dict", name |-> "get_order_details",
       arguments |-> [k \in {"order_id"} |-> 1]],
      [kind |-> "dict", name |-> "get_order_details",
       arguments |-> [k \in {"order_id"} |-> 2]],
      [kind |-> "other", name |-> "", arguments |-> <<>>] }

\* x.get exists
is_dict(x) == x.kind = "dict"

\* tool_seq and group_tools_by_name call .get on every entry of both lists.
all_dicts(row) ==
    /\ \A i \in DOMAIN row.gt_tools : is_dict(row.gt_tools[i])
    /\ \A i \in DOMAIN row.executed_tools : is_dict(row.executed_tools[i])

\* any(_args_match(tool, gargs, e.get("arguments", {}), domain)
\*     for e in executed_tools if e.get("name") == tool), from entry j on:
\* the generator stops at the first match, and e.get raises AttributeError
\* on an entry that is not a dict if it gets that far.
RECURSIVE any_scan(_, _, _, _, _, _)
any_scan(self, tool, gargs, executed_tools, j, dom) ==
    IF j > Len(executed_tools) THEN "false"
    ELSE IF ~is_dict(executed_tools[j]) THEN "raise"
    ELSE IF /\ executed_tools[j].name = tool
            /\ tci_args_match(self, tool, gargs, executed_tools[j].arguments, dom)
         THEN "true"
    ELSE any_scan(self, tool, gargs, executed_tools, j + 1, dom)

\* The loop over gt_args_list from plan entry i on: 1 at the first expected
\* invocation with a match (break), 0 if there is none, "raise" if a scan
\* raises first.
RECURSIVE correct_scan(_, _, _, _, _, _)
correct_scan(self, tool, gt_tools, executed_tools, i, dom) ==
    IF i > Len(gt_tools) THEN "0"
    ELSE IF gt_tools[i].name # tool
         THEN correct_scan(self, tool, gt_tools, executed_tools, i + 1, dom)
    ELSE LET found == any_scan(self, tool, gt_tools[i].arguments,
                               executed_tools, 1, dom)
         IN  IF found = "true" THEN "1"
             ELSE IF found = "raise" THEN "raise"
             ELSE correct_scan(self, tool, gt_tools, executed_tools, i + 1, dom)

\* ToolCriticalityMetric.calculate raises on this row: in the comprehension
\* of gt_names, or in the scan for one of the tools.
tci_row_raises(self, row) ==
    \/ \E i \in DOMAIN row.gt_tools : ~is_dict(row.gt_tools[i])
    \/ \E t \in gt_name_set(row.gt_tools) :
          correct_scan(self, t, row.gt_tools, row.executed_tools, 1, row.domain) = "raise"

InitRaw ==
    /\ schemas \in PRFCatalogs
    /\ pc = "prepare"
    /\ IdleMatch
    /\ IdlePRF
    /\ IdleSeq
    /\ IdleTCI
    /\ IdleCplx
    /\ IdlePrep
    /\ IdleLoad

\* The caller appends a conversation record.
PrepareRaw ==
    /\ pc = "prepare"
    /\ Len(df) < MaxRawConvs
    /\ \E gt \in SeqsUpTo(RawEntries, MaxRawCalls - CallsOf(df)) :
         \E ex \in SeqsUpTo(RawEntries, MaxRawCalls - CallsOf(df) - Len(gt)) :
            df' = Append(df, [domain |-> "retail",
                              success |-> TRUE,
                              exp_plan_len |-> Len(gt),
                              gt_tools |-> gt,
                              executed_tools |-> ex])
    /\ UNCHANGED <<pc, schemas, idx, rows, prf_table>>
    /\ UNCHANGED <<matchVars, seqVars>>
    /\ UNCHANGED <<tciVars, cplxVars>>
    /\ UNCHANGED <<prepVars, loadVars>>

\* SequenceComplianceMetric.calculate, one row whose entries are all dicts.
RawSeqIterRow ==
    /\ pc = "seq_rows"
    /\ idx <= Len(df)
    /\ all_dicts(df[idx])
    /\ SeqIterRow

\* tool_seq raises AttributeError; nothing in calculate catches it.
RawSeqRaise ==
    /\ pc = "seq_rows"
    /\ idx <= Len(df)
    /\ ~all_dicts(df[idx])
    /\ pc' = "raw_raised"
    /\ UNCHANGED <<schemas, df, idx, rows, prf_table>>
    /\ UNCHANGED <<matchVars, seqVars>>
    /\ UNCHANGED <<tciVars, cplxVars>>
    /\ UNCHANGED <<prepVars, loadVars>>

\* PerToolPRFMetric.calculate, one row whose entries are all dicts.
RawPRFIterRow ==
    /\ pc = "prf_rows"
    /\ idx <= Len(df)
    /\ all_dicts(df[idx])
    /\ PRFIterRow

\* group_tools_by_name raises AttributeError; nothing in calculate catches it.
RawPRFRaise ==
    /\ pc = "prf_rows"
    /\ idx <= Len(df)
    /\ ~all_dicts(df[idx])
    /\ pc' = "raw_raised"
    /\ UNCHANGED <<schemas, df, idx, rows, prf_table>>
    /\ UNCHANGED <<matchVars, seqVars>>
    /\ UNCHANGED <<tciVars, cplxVars>>
    /\ UNCHANGED <<prepVars, loadVars>>

\* ToolCriticalityMetric.calculate, one row on which no .get raises.
RawTCIIterRow ==
    /\ pc = "tci_rows"
    /\ idx <= Len(df)
    /\ ~tci_row_raises(schemas, df[idx])
    /\ \E order \in Orders(gt_name_set(df[idx].gt_tools)) :
          flags' = flags \o
              [i \in DOMAIN order |->
                  [tool |-> order[i],
                   correct |-> IF correct_scan(schemas, order[i], df[idx].gt_tools,
                                               df[idx].executed_tools, 1,
                                               df[idx].domain) = "1"
                               THEN 1 ELSE 0,
                   success |-> IF df[idx].success THEN 1 ELSE 0]]
    /\ idx' = idx + 1
    /\ UNCHANGED <<pc, schemas, df, rows, prf_table, tci_table>>
    /\ UNCHANGED <<matchVars, seqVars, cplxVars>>
    /\ UNCHANGED <<prepVars, loadVars>>

\* g.get or e.get raises AttributeError; nothing in calculate catches it.
RawTCIRaise ==
    /\ pc = "tci_rows"
    /\ idx <= Len(df)
    /\ tci_row_raises(schemas, df[idx])
    /\ pc' = "raw_raised"
    /\ UNCHANGED <<schemas, df, idx, rows, prf_table>>
    /\ UNCHANGED <<matchVars, seqVars>>
    /\ UNCHANGED <<tciVars, cplxVars>>
    /\ UNCHANGED <<prepVars, loadVars>>

NextRaw ==
    \/ PrepareRaw
    \/ SeqStart \/ RawSeqIterRow \/ RawSeqRaise \/ SeqReturn
    \/ PRFStart \/ RawPRFIterRow \/ RawPRFRaise \/ PRFAggregate \/ PRFRaise
    \/ TCIStart \/ RawTCIIterRow \/ RawTCIRaise \/ TCIAggregate

SpecRaw == InitRaw /\ [][NextRaw]_vars

-----------------------------------------------------------------------------
(* Two analyzers of the engine on one dataset whose conversations use two  *)
(* named tools: PerToolPRFMetric.calculate and                             *)
(* ToolCriticalityMetric.calculate.  Both loop over a Python set of tool   *)
(* names, whose iteration order is not fixed from one run to the next      *)
(* (string hashes are salted per process).                                 *)

RunInvocations ==
    { [name |-> "get_order_details", arguments |-> [k \in {"order_id"} |-> 1]],
      [name |-> "calculate", arguments |-> [k \in {"expression"} |-> 1]] }

\* The values flags can have after the loop of ToolCriticalityMetric.calculate
\* over the dataset d, one per choice of iteration orders.
RECURSIVE tci_flag_runs(_, _)
tci_flag_runs(self, d) ==
    IF d = <<>> THEN { <<>> }
    ELSE { f \o tci_flag_rows(self, d[Len(d)], order) :
             f \in tci_flag_runs(self, SubSeq(d, 1, Len(d) - 1)),
             order \in Orders(gt_name_set(d[Len(d)].gt_tools)) }

\* The values rows can have after the loop of PerToolPRFMetric.calculate.
RECURSIVE prf_row_runs(_, _)
prf_row_runs(self, d) ==
    IF d = <<>> THEN { <<>> }
    ELSE { rs \o conversation_rows(self, d[Len(d)], order) :
             rs \in prf_row_runs(self, SubSeq(d, 1, Len(d) - 1)),
             order \in Orders(all_tools(group_tools_by_name(d[Len(d)].gt_tools),
                                        group_tools_by_name(d[Len(d)].executed_tools))) }

PrepareRun == Prepare(RunInvocations)

NextRuns ==
    \/ PrepareRun
    \/ PRFStart \/ PRFIterRow \/ PRFAggregate \/ PRFRaise
    \/ TCIStart \/ TCIIterRow \/ TCIAggregate

SpecRuns == InitTCI /\ [][NextRuns]_vars

-----------------------------------------------------------------------------
(* DataPreparer.prepare_multiple_simulation_files: the dataset is built    *)
(* from simulation files, each a list of simulation entries.               *)

MaxFiles == 2   \* most simulation files of a run
MaxSims == 2    \* most simulation entries of a file

\* The simulation entries: dicts with or without the key "task_id".  All
\* other keys are read with .get and a default; "reward" decides success.
Simulations ==
    { [k \in {"task_id", "reward"} |-> IF k = "task_id" THEN 0 ELSE 1],
      [k \in {"task_id", "reward"} |-> IF k = "task_id" THEN 1 ELSE 0],
      [k \in {"reward"} |-> 1] }

\* str() of a task id
str(n) == <<"0", "1", "2", "3", "4", "5", "6", "7", "8", "9">>[n + 1]

\* _extract_task_id raises ValueError exactly when this is false.
has_task_id(conversation_data) == "task_id" \in DOMAIN conversation_data

_extract_task_id(conversation_data) == str(conversation_data["task_id"])

\* No reward_info and no termination_reason: float(reward) > 0, reward
\* defaulting to 0.
_extract_success_status(conversation_data) ==
    (IF "reward" \in DOMAIN conversation_data THEN conversation_data["reward"] ELSE 0) > 0

\* prepare_conversation_data raises ValueError when the entry has no task_id
\* or the domain is empty.
prepare_raises(conversation_data, dom) ==
    ~has_task_id(conversation_data) \/ dom = ""

\* The record prepare_conversation_data returns otherwise; the entries have
\* no messages and their tasks no actions.
prepare_conversation_data(conversation_data, dom) ==
    [task_id |-> _extract_task_id(conversation_data),
     domain |-> dom,
     success |-> _extract_success_status(conversation_data),
     exp_plan_len |-> 0,
     gt_tools |-> <<>>,
     executed_tools |-> <<>>]

\* pd.concat(all_data, ignore_index=True)
RECURSIVE concat(_)
concat(frames) == IF frames = <<>> THEN <<>> ELSE frames[1] \o concat(Tail(frames))

InitPrep ==
    /\ schemas = <<>>
    /\ pc = "files"
    /\ IdleMatch
    /\ IdlePRF
    /\ IdleSeq
    /\ IdleTCI
    /\ IdleCplx
    /\ IdlePrep
    /\ IdleLoad

\* One more simulation file of the run; its name gives the domain.
AddSimulationFile ==
    /\ pc = "files"
    /\ Len(simulation_files) < MaxFiles
    /\ \E sims \in SeqsUpTo(Simulations, MaxSims) :
          simulation_files' = Append(simulation_files,
                                     [domain |-> "retail", simulations |-> sims])
    /\ UNCHANGED <<pc, schemas, file_i, sim_i, conversations, all_data>>
    /\ UNCHANGED <<matchVars, prfVars, seqVars, tciVars, cplxVars, loadVars>>

\* prepare_multiple_simulation_files is called: all_data = []
PrepareMultipleStart ==
    /\ pc = "files"
    /\ pc' = "prep_files"
    /\ file_i' = 1
    /\ all_data' = <<>>
    /\ UNCHANGED <<schemas, simulation_files, sim_i, conversations>>
    /\ UNCHANGED <<matchVars, prfVars, seqVars, tciVars, cplxVars, loadVars>>

\* prepare_simulation_file is called on the next file: conversations = []
PrepareFileStart ==
    /\ pc = "prep_files"
    /\ file_i <= Len(simulation_files)
    /\ pc' = "prep_sims"
    /\ sim_i' = 1
    /\ conversations' = <<>>
    /\ UNCHANGED <<schemas, simulation_files, file_i, all_data>>
    /\ UNCHANGED <<matchVars, prfVars, seqVars, tciVars, cplxVars, loadVars>>

\* One iteration of "for sim in simulations" that returns normally.
PrepareSim ==
    /\ pc = "prep_sims"
    /\ sim_i <= Len(simulation_files[file_i].simulations)
    /\ LET file == simulation_files[file_i]
           sim == file.simulations[sim_i]
       IN  /\ ~prepare_raises(sim, file.domain)
           /\ conversations' = Append(conversations,
                                      prepare_conversation_data(sim, file.domain))
    /\ sim_i' = sim_i + 1
    /\ UNCHANGED <<pc, schemas, simulation_files, file_i, all_data>>
    /\ UNCHANGED <<matchVars, prfVars, seqVars, tciVars, cplxVars, loadVars>>

\* prepare_conversation_data raises ValueError; neither loop has a
\* try/except, so the exception leaves prepare_multiple_simulation_files
\* and nothing is returned.
PrepareSimRaise ==
    /\ pc = "prep_sims"
    /\ sim_i <= Len(simulation_files[file_i].simulations)
    /\ prepare_raises(simulation_files[file_i].simulations[sim_i],
                      simulation_files[file_i].domain)
    /\ pc' = "prep_raised"
    /\ UNCHANGED <<schemas, prepVars>>
    /\ UNCHANGED <<matchVars, prfVars, seqVars, tciVars, cplxVars, loadVars>>

\* prepare_simulation_file returns its frame; it is kept unless empty.
PrepareFileReturn ==
    /\ pc = "prep_sims"
    /\ sim_i > Len(simulation_files[file_i].simulations)
    /\ all_data' = IF conversations # <<>> THEN Append(all_data, conversations)
                   ELSE all_data
    /\ file_i' = file_i + 1
    /\ pc' = "prep_files"
    /\ UNCHANGED <<schemas, simulation_files, sim_i, conversations>>
    /\ UNCHANGED <<matchVars, prfVars, seqVars, tciVars, cplxVars, loadVars>>

\* prepare_multiple_simulation_files returns the concatenation, or the
\* empty frame.
PrepareMultipleReturn ==
    /\ pc = "prep_files"
    /\ file_i > Len(simulation_files)
    /\ df' = IF all_data # <<>> THEN concat(all_data) ELSE <<>>
    /\ pc' = "prep_done"
    /\ UNCHANGED <<schemas, idx, rows, prf_table, prepVars>>
    /\ UNCHANGED <<matchVars, seqVars, tciVars, cplxVars, loadVars>>

NextPrep ==
    \/ AddSimulationFile
    \/ PrepareMultipleStart
    \/ PrepareFileStart
    \/ PrepareSim
    \/ PrepareSimRaise
    \/ PrepareFileReturn
    \/ PrepareMultipleReturn

SpecPrep == InitPrep /\ [][NextPrep]_vars

-----------------------------------------------------------------------------
(* ToolSchemaLoader._extract_tool_schemas_from_tasks over the tasks of one *)
(* domain, and the matcher called with the catalog it has built.           *)

MaxTasks == 2       \* most tasks of the domain
MaxActions == 2     \* most actions of all tasks together

\* The actions of the tasks.  kind tells what "arguments" is: a dict (the
\* field arguments), a list (the field keys) or something else, such as
\* null.
LoadActions ==
    { [name |-> "get_order_details", kind |-> "dict",
       arguments |-> [k \in {"order_id"} |-> 1], keys |-> <<>>],
      [name |-> "get_order_details", kind |-> "list",
       arguments |-> <<>>, keys |-> <<"order_id", "reason">>],
      [name |-> "get_order_details", kind |-> "other",
       arguments |-> <<>>, keys |-> <<>>],
      [name |-> "calculate", kind |-> "dict",
       arguments |-> [k \in {"order_id"} |-> 1], keys |-> <<>>],
      [name |-> "", kind |-> "dict",
       arguments |-> [k \in {"order_id"} |-> 1], keys |-> <<>>] }

\* The argument mappings of the invocations the matcher is then given.
LoadedArgs == { <<>>, [k \in {"order_id"} |-> 1] }

\* The number of actions of the tasks.
RECURSIVE ActionsOf(_)
ActionsOf(tasks) ==
    IF tasks = <<>> THEN 0 ELSE Len(tasks[1].actions) + ActionsOf(Tail(tasks))

\* tool_schemas[tool_name] = value
dict_set(d, key, value) ==
    [n \in DOMAIN d \cup {key} |-> IF n = key THEN value ELSE d[n]]

\* Mutant: the guard "tool_name not in tool_schemas" is gone, the last
\* action of a name decides.
extract_action_last_wins(ts, action, ks) ==
    IF action.name # ""
    THEN IF action.kind = "dict" THEN dict_set(ts, action.name, ks)
         ELSE IF action.kind = "list" THEN dict_set(ts, action.name, action.keys)
         ELSE ts
    ELSE ts

\* The body of "for action in actions": tool_schemas after it; ks is
\* list(arguments.keys()) when arguments is a dict.
extract_action(ts, action, ks) ==
    IF action.name # "" /\ action.name \notin DOMAIN ts
    THEN IF action.kind = "dict" THEN dict_set(ts, action.name, ks)
         ELSE IF action.kind = "list" THEN dict_set(ts, action.name, action.keys)
         ELSE ts
    ELSE ts

InitSchema ==
    /\ schemas = <<>>
    /\ pc = "tasks"
    /\ IdleMatch
    /\ IdlePRF
    /\ IdleSeq
    /\ IdleTCI
    /\ IdleCplx
    /\ IdlePrep
    /\ IdleLoad

\* One more task of tasks.json, with its evaluation_criteria.actions.
AddTask ==
    /\ pc = "tasks"
    /\ Len(tasks_data) < MaxTasks
    /\ \E actions \in SeqsUpTo(LoadActions, MaxActions - ActionsOf(tasks_data)) :
          tasks_data' = Append(tasks_data, [actions |-> actions])
    /\ UNCHANGED <<pc, schemas, task_i, action_i, tool_schemas>>
    /\ UNCHANGED <<matchVars, prfVars, seqVars, tciVars, cplxVars, prepVars>>

\* _extract_tool_schemas_from_tasks is called: tool_schemas = {}
ExtractStart ==
    /\ pc = "tasks"
    /\ pc' = "extract"
    /\ task_i' = 1
    /\ action_i' = 1
    /\ tool_schemas' = <<>>
    /\ UNCHANGED <<schemas, tasks_data>>
    /\ UNCHANGED <<matchVars, prfVars, seqVars, tciVars, cplxVars, prepVars>>

\* One iteration of "for action in actions".  The keys of a dict come in
\* the order the file gives them, which the mapping here does not carry.
ExtractAction ==
    /\ pc = "extract"
    /\ task_i <= Len(tasks_data)
    /\ action_i <= Len(tasks_data[task_i].actions)
    /\ LET action == tasks_data[task_i].actions[action_i]
       IN  \E ks \in Orders(DOMAIN action.arguments) :
              tool_schemas' = extract_action(tool_schemas, action, ks)
    /\ action_i' = action_i + 1
    /\ UNCHANGED <<pc, schemas, tasks_data, task_i>>
    /\ UNCHANGED <<matchVars, prfVars, seqVars, tciVars, cplxVars, prepVars>>

\* The actions of the task are exhausted: the next task.
ExtractNextTask ==
    /\ pc = "extract"
    /\ task_i <= Len(tasks_data)
    /\ action_i > Len(tasks_data[task_i].actions)
    /\ task_i' = task_i + 1
    /\ action_i' = 1
    /\ UNCHANGED <<pc, schemas, tasks_data, tool_schemas>>
    /\ UNCHANGED <<matchVars, prfVars, seqVars, tciVars, cplxVars, prepVars>>

\* return tool_schemas; _load_all_domain_schemas stores it under the name
\* of the domain.
ExtractReturn ==
    /\ pc = "extract"
    /\ task_i > Len(tasks_data)
    /\ schemas' = [d \in {"retail"} |-> tool_schemas]
    /\ pc' = "schema_done"
    /\ UNCHANGED loadVars
    /\ UNCHANGED <<matchVars, prfVars, seqVars, tciVars, cplxVars, prepVars>>

\* _greedy_match_tools is called for get_order_details with the loaded
\* catalog.
LoadedMatchStart ==
    /\ pc = "schema_done"
    /\ pc' = "match_loop"
    /\ tool_name' = "get_order_details"
    /\ domain' = "retail"
    /\ gt_list' \in SeqsUpTo(LoadedArgs, MaxGt)
    /\ ex_list' \in SeqsUpTo(LoadedArgs, MaxEx)
    /\ used' = [j \in 1..Len(ex_list') |-> FALSE]
    /\ tp' = 0
    /\ gi' = 1
    /\ UNCHANGED <<schemas, matched_count>>
    /\ UNCHANGED <<prfVars, seqVars, tciVars, cplxVars, prepVars, loadVars>>

NextSchema ==
    \/ AddTask
    \/ ExtractStart
    \/ ExtractAction
    \/ ExtractNextTask
    \/ ExtractReturn
    \/ LoadedMatchStart
    \/ MatchStep
    \/ MatchReturn

SpecSchema == InitSchema /\ [][NextSchema]_vars

-----------------------------------------------------------------------------
(* Properties of the matcher, checked under SpecMatch.                     *)

Range(f) == { f[x] : x \in DOMAIN f }

SetMax(S) == CHOOSE x \in S : \A y \in S : x >= y

\* The size of a maximum one-to-one matching of the expected to the executed
\* invocations under _args_match: gt i is left out, or paired with a free j.
RECURSIVE max_matching_from(_, _, _, _, _, _, _)
max_matching_from(self, gtl, exl, i, taken, tool, dom) ==
    IF i > Len(gtl) THEN 0
    ELSE LET skip == max_matching_from(self, gtl, exl, i + 1, taken, tool, dom)
             free == { j \in 1..Len(exl) :
                         /\ j \notin taken
                         /\ _args_match(self, tool, gtl[i], exl[j], dom) }
             take(j) == 1 + max_matching_from(self, gtl, exl, i + 1,
                                              taken \cup {j}, tool, dom)
         IN  SetMax({skip} \cup { take(j) : j \in free })

max_matching(self, gtl, exl, tool, dom) ==
    max_matching_from(self, gtl, exl, 1, {}, tool, dom)

\* The key set K of the call in progress.
SchemaKeys == Range(get_tool_schema(schemas, domain, tool_name))

\* The equality predicate as the specification words it.
KeysAgree(K, exp_args, act_args) ==
    \A k \in K : /\ k \in DOMAIN exp_args
                 /\ k \in DOMAIN act_args
                 /\ exp_args[k] = act_args[k]

\* The part of an argument mapping that lies in K.
Restrict(args, K) == [k \in DOMAIN args \cap K |-> args[k]]

\* C1: the matcher's count is never negative and never above the length of
\* the shorter list, while it runs and in what it returns.
C1_MatchedCountBounded ==
    /\ 0 <= tp
    /\ tp <= Min(Len(gt_list), Len(ex_list))
    /\ pc = "match_done" =>
         /\ 0 <= matched_count
         /\ matched_count <= Min(Len(gt_list), Len(ex_list))

\* Two expected invocations that both match the only executed one.
C1_Witness ==
    /\ pc = "match_done"
    /\ Len(gt_list) = 2
    /\ Len(ex_list) = 1
    /\ \A i \in 1..2 : _args_match(schemas, tool_name, gt_list[i], ex_list[1], domain)
    /\ matched_count = 1

\* C2 as stated: some expected list, executed list and schema (one of the
\* universe, or the call in progress) make the greedy count smaller than a
\* maximum one-to-one matching.
C2_GreedyBelowMaximumExists ==
    \E self \in Catalogs \cup {schemas}, dom \in {"retail", "airline"},
       tool \in {"get_order_details", "calculate"},
       gtl \in SeqsUpTo(ArgsUniverse, MaxGt) \cup {gt_list},
       exl \in SeqsUpTo(ArgsUniverse, MaxEx) \cup {ex_list} :
        _greedy_match_tools(self, gtl, exl, tool, dom)
            < max_matching(self, gtl, exl, tool, dom)

\* C2 (amended): the greedy count always equals the size of a maximum
\* one-to-one matching under the same equality predicate.
C2_GreedyIsMaximum ==
    pc = "match_done" =>
        matched_count = max_matching(schemas, gt_list, ex_list, tool_name, domain)

\* A call where the first expected invocation has a choice of two executed
\* ones and the second expected invocation is left unmatched.
C2_Witness ==
    /\ pc = "match_done"
    /\ Len(gt_list) = 2
    /\ Len(ex_list) = 2
    /\ SchemaKeys # {}
    /\ \A j \in 1..2 : _args_match(schemas, tool_name, gt_list[1], ex_list[j], domain)
    /\ matched_count = 1

\* C3: _args_match is true iff every schema key is in both mappings with
\* equal values; a schema key missing from both is a mismatch; and only the
\* parts of the two mappings that lie in K decide the result (two pairs of
\* the call that agree inside K get the same answer).
C3_ArgsMatchIffSchemaKeysAgree ==
    pc = "match_done" =>
      \A i \in 1..Len(gt_list), j \in 1..Len(ex_list) :
        LET m == _args_match(schemas, tool_name, gt_list[i], ex_list[j], domain)
        IN  /\ m <=> KeysAgree(SchemaKeys, gt_list[i], ex_list[j])
            /\ (\E k \in SchemaKeys :
                   k \notin DOMAIN gt_list[i] /\ k \notin DOMAIN ex_list[j]) => ~m
            /\ \A i2 \in 1..Len(gt_list), j2 \in 1..Len(ex_list) :
                 ( /\ Restrict(gt_list[i2], SchemaKeys) = Restrict(gt_list[i], SchemaKeys)
                   /\ Restrict(ex_list[j2], SchemaKeys) = Restrict(ex_list[j], SchemaKeys) )
                 => (_args_match(schemas, tool_name, gt_list[i2], ex_list[j2], domain)
                       <=> m)

\* The matcher has compared two invocations that both lack the schema key.
C3_Witness ==
    /\ pc = "match_done"
    /\ get_tool_schema(schemas, domain, tool_name) = <<"order_id">>
    /\ Len(gt_list) = 1
    /\ Len(ex_list) = 1
    /\ "order_id" \notin DOMAIN gt_list[1]
    /\ "order_id" \notin DOMAIN ex_list[1]
    /\ matched_count = 0

\* The lookup of the call in progress misses the catalog.
LookupMisses ==
    \/ domain \notin DOMAIN schemas
    \/ tool_name \notin DOMAIN schemas[domain]

\* C4: a tool name or domain absent from the catalog has the empty key
\* list, every pair of its invocations matches, and the matcher returns
\* min(number of expected, number of executed).
C4_LookupMissMatchesAll ==
    LookupMisses =>
        /\ get_tool_schema(schemas, domain, tool_name) = <<>>
        /\ \A i \in 1..Len(gt_list), j \in 1..Len(ex_list) :
               _args_match(schemas, tool_name, gt_list[i], ex_list[j], domain)
        /\ pc = "match_done" =>
               matched_count = Min(Len(gt_list), Len(ex_list))

\* A tool missing from a catalog that has its domain, with arguments that
\* differ in every key.
C4_Witness ==
    /\ pc = "match_done"
    /\ domain \in DOMAIN schemas
    /\ tool_name \notin DOMAIN schemas[domain]
    /\ Len(gt_list) = 2
    /\ Len(ex_list) = 1
    /\ gt_list[1] = [k \in {"order_id"} |-> 1]
    /\ ex_list[1] = [k \in {"order_id"} |-> 2]
    /\ matched_count = 1

-----------------------------------------------------------------------------
(* Properties of the per-tool PRF table, checked under SpecPRF.            *)

\* The arguments of the invocations named t, in list order.
RECURSIVE ArgsNamed(_, _)
ArgsNamed(tools, t) ==
    IF tools = <<>> THEN <<>>
    ELSE (IF tools[1].name = t THEN <<tools[1].arguments>> ELSE <<>>)
             \o ArgsNamed(Tail(tools), t)

\* The counts the specification gives one tool in one conversation.
StatedCounts(conv, t) ==
    LET n_expected == Len(ArgsNamed(conv.gt_tools, t))
        n_executed == Len(ArgsNamed(conv.executed_tools, t))
        matched == _greedy_match_tools(schemas, ArgsNamed(conv.gt_tools, t),
                                       ArgsNamed(conv.executed_tools, t), t, conv.domain)
    IN  [tool |-> t,
         tp |-> matched,
         fp |-> Max(0, n_executed - matched),
         fn |-> Max(0, n_expected - matched),
         requires_tool |-> IF n_expected > 0 THEN 1 ELSE 0]

NamesOf(conv) ==
    { conv.gt_tools[i].name : i \in DOMAIN conv.gt_tools }
        \cup { conv.executed_tools[i].name : i \in DOMAIN conv.executed_tools }

\* The names that occur in the dataset.
OccurringNames == UNION { NamesOf(df[c]) : c \in DOMAIN df }

\* The stated rows of tool t for the first n conversations, in order.
RECURSIVE StatedRows(_, _)
StatedRows(t, n) ==
    IF n = 0 THEN <<>>
    ELSE StatedRows(t, n - 1)
             \o (IF t \in NamesOf(df[n]) THEN <<StatedCounts(df[n], t)>> ELSE <<>>)

RECURSIVE StatedSum(_, _, _)
StatedSum(t, col, n) ==
    IF n = 0 THEN 0 ELSE StatedSum(t, col, n - 1) + StatedCounts(df[n], t)[col]

TableRows == { prf_table[i] : i \in DOMAIN prf_table }

\* C5: every conversation visited has left, for each of its tool names, one
\* row with tp = matched_count, fn = max(0, n_expected - matched_count),
\* fp = max(0, n_executed - matched_count) and requires_tool = 1 iff
\* n_expected > 0; each row of the table holds the sums of these over all
\* conversations, and they are non-negative.
C5_CountsAndSums ==
    /\ pc \in {"prf_rows", "prf_done"} =>
         \A t \in Range(SortedNames) :
            SelectSeq(rows, LAMBDA r : r.tool = t) = StatedRows(t, idx - 1)
    /\ pc = "prf_done" =>
         \A r \in TableRows :
            /\ r.tp = StatedSum(r.tool, "tp", Len(df))
            /\ r.fp = StatedSum(r.tool, "fp", Len(df))
            /\ r.fn = StatedSum(r.tool, "fn", Len(df))
            /\ r.requires_tool = StatedSum(r.tool, "requires_tool", Len(df))
            /\ r.tp >= 0 /\ r.fp >= 0 /\ r.fn >= 0 /\ r.requires_tool >= 0

\* Two conversations that require the same tool: one call matched, one
\* missed, one spurious.
C5_Witness ==
    /\ pc = "prf_done"
    /\ Len(df) = 2
    /\ \E r \in TableRows :
          r.tp = 1 /\ r.fn = 1 /\ r.fp = 1 /\ r.requires_tool = 2

\* C6: the table has exactly one row for each tool name that occurs in
\* gt_tools or executed_tools of some conversation, and no other row.
C6_OneRowPerOccurringName ==
    pc = "prf_done" =>
        /\ { r.tool : r \in TableRows } = OccurringNames
        /\ Len(prf_table) = Cardinality(OccurringNames)

\* Two rows, one of them for a tool that was executed and never expected.
C6_Witness ==
    /\ pc = "prf_done"
    /\ Len(df) = 2
    /\ Len(prf_table) = 2
    /\ \E t \in OccurringNames :
          \A c \in DOMAIN df : ArgsNamed(df[c].gt_tools, t) = <<>>

\* C7: an invocation with an empty name gets no row of the PRF table.
C7_EmptyNameHasNoRow ==
    pc = "prf_done" => \A r \in TableRows : r.tool # ""

\* x is the number n/d.
IsRatio(x, n, d) == x.kind = "num" /\ x.num * d = n * x.den

\* C8: precision, recall, f1 and omission_rate of every row are undefined
\* (NaN, never 0) exactly where the specification says and the stated ratio
\* everywhere else; with P = tp/(tp+fp) and R = tp/(tp+fn) both defined and
\* not both 0, 2PR/(P+R) is 2tp/(2tp+fp+fn).
C8_DerivedMetrics ==
    pc = "prf_done" =>
        \A r \in TableRows :
            /\ (r.precision = NaN) <=> (r.tp + r.fp = 0)
            /\ r.tp + r.fp # 0 => IsRatio(r.precision, r.tp, r.tp + r.fp)
            /\ (r.recall = NaN) <=> (r.tp + r.fn = 0)
            /\ r.tp + r.fn # 0 => IsRatio(r.recall, r.tp, r.tp + r.fn)
            /\ (r.f1 = NaN) <=> (r.tp + r.fp = 0 \/ r.tp + r.fn = 0 \/ r.tp = 0)
            /\ r.f1 # NaN => IsRatio(r.f1, 2 * r.tp, 2 * r.tp + r.fp + r.fn)
            /\ (r.omission_rate = NaN) <=> (r.requires_tool = 0)
            /\ r.requires_tool # 0 => IsRatio(r.omission_rate, r.fn, r.requires_tool)

\* A table with a row whose precision and recall are both 0 (f1 undefined)
\* and a row of a tool nobody expected (recall and omission_rate undefined).
C8_Witness ==
    /\ pc = "prf_done"
    /\ \E r \in TableRows :
          r.precision = Float(0) /\ r.recall = Float(0) /\ r.f1 = NaN
    /\ \E r \in TableRows :
          r.precision = Float(0) /\ r.recall = NaN /\ r.omission_rate = NaN

-----------------------------------------------------------------------------
(* Properties of the sequence-compliance rows, checked under SpecSeq.      *)

\* A row has been computed; gt_names, ex_names and ped are those of the
\* conversation it belongs to.
RowComputed == pc \in {"seq_rows", "seq_done"} /\ idx > 1

LastSeqRow == seq_rows[Len(seq_rows)]

\* The position of the first occurrence of n in names.
FirstPos(names, n) ==
    CHOOSE p \in DOMAIN names : names[p] = n /\ \A q \in 1..(p - 1) : names[q] # n

RECURSIVE FirstDevSum(_, _, _)
FirstDevSum(gtn, exn, i) ==
    IF i > Len(gtn) THEN 0
    ELSE (IF gtn[i] \in Range(exn) THEN Abs(FirstPos(exn, gtn[i]) - i) ELSE 0)
             + FirstDevSum(gtn, exn, i + 1)

\* PD as stated: the mean distance of the expected positions to the first
\* executed occurrence.
FirstOccurrencePD(gtn, exn) ==
    LET hits == { i \in DOMAIN gtn : gtn[i] \in Range(exn) }
    IN  IF hits = {} THEN NaN
        ELSE Frac(FirstDevSum(gtn, exn, 1), Cardinality(hits))

\* C9: PD of every conversation is the mean of |p - i| over the positions i
\* of gt_names whose name is executed, p being the position of the first
\* occurrence of the name in ex_names; NaN iff no expected name is executed.
C9_PDFromFirstOccurrence ==
    RowComputed =>
        /\ LastSeqRow.PD = FirstOccurrencePD(gt_names, ex_names)
        /\ (LastSeqRow.PD = NaN) <=> (Range(gt_names) \cap Range(ex_names) = {})

\* C10: the distance of (gt_names, ex_names) is the distance of
\* (ex_names, gt_names).
C10_LevenshteinSymmetric ==
    RowComputed => ped = levenshtein(ex_names, gt_names)

\* A plan of one name against a trace of three, two edits away.
C10_Witness ==
    /\ RowComputed
    /\ Len(gt_names) = 1
    /\ Len(ex_names) = 3
    /\ ped = 2

\* C11: the distance is 0 exactly for equal sequences; nPED is a number
\* >= 0, is 0 exactly when gt_names = ex_names, and for an empty plan is
\* len(ex_names) (the max(1, .) guard divides by 1).
C11_ZeroIffEqualAndNPED ==
    RowComputed =>
        /\ (ped = 0) <=> (gt_names = ex_names)
        /\ LastSeqRow.nPED.kind = "num"
        /\ LastSeqRow.nPED.num >= 0 /\ LastSeqRow.nPED.den > 0
        /\ LastSeqRow.nPED = Frac(ped, Max(1, Len(gt_names)))
        /\ (LastSeqRow.nPED = Float(0)) <=> (gt_names = ex_names)
        /\ (gt_names = <<>>) => (LastSeqRow.nPED = Float(Len(ex_names)))

\* An empty plan against a trace of two names: nPED is 2.
C11_Witness ==
    /\ RowComputed
    /\ gt_names = <<>>
    /\ Len(ex_names) = 2
    /\ LastSeqRow.nPED = Float(2)

\* C12: a plan [x, y] of two distinct names executed as [y, x] has
\* distance 2, nPED 1 and PD 1.
C12_TranspositionCostsTwo ==
    (/\ RowComputed
     /\ Len(gt_names) = 2
     /\ gt_names[1] # gt_names[2]
     /\ ex_names = <<gt_names[2], gt_names[1]>>)
        => /\ ped = 2
           /\ LastSeqRow.nPED = Float(1)
           /\ LastSeqRow.PD = Float(1)

\* The plan [get_order_details, cancel_pending_order] executed in the
\* opposite order.
C12_Witness ==
    /\ RowComputed
    /\ gt_names = <<"get_order_details", "cancel_pending_order">>
    /\ ex_names = <<"cancel_pending_order", "get_order_details">>
    /\ ped = 2
    /\ LastSeqRow.PD = Float(1)

-----------------------------------------------------------------------------
(* Properties of the tool-criticality tables, checked under SpecTCI.       *)

\* The distinct names of the expected plan of a conversation.
PlanNames(conv) == { conv.gt_tools[i].name : i \in DOMAIN conv.gt_tools }

\* The number of flag rows of the first c conversations.
RECURSIVE FlagOffset(_)
FlagOffset(c) ==
    IF c = 0 THEN 0 ELSE FlagOffset(c - 1) + Cardinality(PlanNames(df[c]))

\* The flag rows of conversation c.
FlagsOfConv(c) ==
    [p \in 1..Cardinality(PlanNames(df[c])) |-> flags[FlagOffset(c - 1) + p]]

\* correct as stated: some expected and some executed invocation of the name
\* agree on the schema keys.
StatedCorrect(conv, t) ==
    IF \E g \in Range(ArgsNamed(conv.gt_tools, t)),
          e \in Range(ArgsNamed(conv.executed_tools, t)) :
             KeysAgree(Range(get_tool_schema(schemas, conv.domain, t)), g, e)
    THEN 1 ELSE 0

\* C13: every processed conversation has exactly one flag row per distinct
\* name of its expected plan, with correct = 1 iff some expected and some
\* executed invocation of that name satisfy the equality predicate, and with
\* the success flag of the conversation.
C13_OneFlagPerPlanName ==
    pc \in {"tci_rows", "tci_done"} =>
        /\ Len(flags) = FlagOffset(idx - 1)
        /\ \A c \in 1..(idx - 1) :
              LET fl == FlagsOfConv(c)
              IN  /\ { fl[p].tool : p \in DOMAIN fl } = PlanNames(df[c])
                  /\ \A p \in DOMAIN fl :
                        /\ fl[p].correct = StatedCorrect(df[c], fl[p].tool)
                        /\ fl[p].success = (IF df[c].success THEN 1 ELSE 0)

\* A plan with two invocations of get_order_details whose arguments are
\* checked, one executed invocation serving both: a single flag row,
\* correct = 1.
C13_Witness ==
    /\ pc = "tci_done"
    /\ Len(df) = 1
    /\ Len(df[1].gt_tools) = 2
    /\ Len(df[1].executed_tools) = 1
    /\ get_tool_schema(schemas, "retail", "get_order_details") = <<"order_id">>
    /\ \A i \in 1..2 : df[1].gt_tools[i] = df[1].executed_tools[1]
    /\ df[1].executed_tools[1].name = "get_order_details"
    /\ Len(flags) = 1
    /\ flags[1].correct = 1

\* The positions of the flag rows of a tool with a given correct value.
FlagSet(tool, c) ==
    { p \in DOMAIN flags : flags[p].tool = tool /\ flags[p].correct = c }

Successes(P) == Cardinality({ p \in P : flags[p].success = 1 })

\* The stated rate of a partition: the mean success, 0.0 if it is empty.
IsStatedRate(x, P) ==
    IF P = {} THEN x = Float(0) ELSE IsRatio(x, Successes(P), Cardinality(P))

TCIRows == { tci_table[i] : i \in DOMAIN tci_table }

\* C14: in every row of a tool-criticality table, n_correct and n_incorrect
\* count the flag rows of the tool with correct = 1 and 0, p_correct and
\* p_incorrect are the mean success of those rows (0.0 for none), and
\* TCI = p_correct - p_incorrect.
C14_TableRowValues ==
    pc \in {"tci_done", "ci_done"} =>
        \A r \in TCIRows :
            /\ r.n_correct = Cardinality(FlagSet(r.tool, 1))
            /\ r.n_incorrect = Cardinality(FlagSet(r.tool, 0))
            /\ IsStatedRate(r.p_correct, FlagSet(r.tool, 1))
            /\ IsStatedRate(r.p_incorrect, FlagSet(r.tool, 0))
            /\ r.TCI.kind = "num"
            /\ r.TCI.num * r.p_correct.den * r.p_incorrect.den
                 = (r.p_correct.num * r.p_incorrect.den
                      - r.p_incorrect.num * r.p_correct.den) * r.TCI.den

\* A tool never used correctly in two conversations, one of which
\* succeeded: p_correct = 0.0, p_incorrect = 1/2, TCI = -1/2.
C14_Witness ==
    /\ pc = "tci_done"
    /\ \E r \in TCIRows :
          /\ r.n_correct = 0
          /\ r.n_incorrect = 2
          /\ r.p_correct = Float(0)
          /\ r.p_incorrect = Frac(1, 2)
          /\ r.TCI = Frac(-1, 2)

\* C15: TCI lies in [-1, 1]; and a tool whose correct conversations all
\* succeeded and whose incorrect conversations all failed, with both kinds
\* present, has TCI = 1.
C15_TCIBounded ==
    pc \in {"tci_done", "ci_done"} =>
        \A r \in TCIRows :
            /\ r.TCI.kind = "num"
            /\ r.TCI.den > 0
            /\ -r.TCI.den <= r.TCI.num
            /\ r.TCI.num <= r.TCI.den
            /\ (/\ FlagSet(r.tool, 1) # {}
                /\ FlagSet(r.tool, 0) # {}
                /\ \A p \in FlagSet(r.tool, 1) : flags[p].success = 1
                /\ \A p \in FlagSet(r.tool, 0) : flags[p].success = 0)
                   => r.TCI = Float(1)

\* A tool used correctly in a conversation that succeeded and incorrectly in
\* one that failed.
C15_Witness ==
    /\ pc = "tci_done"
    /\ \E r \in TCIRows :
          /\ r.n_correct = 1
          /\ r.n_incorrect = 1
          /\ r.p_correct = Float(1)
          /\ r.p_incorrect = Float(0)
          /\ r.TCI = Float(1)

\* C16: every non-empty tool name of an expected plan has exactly one row in
\* the finished table, plain or with intervals; with intervals, the row
\* carries TCI_ci_lower and TCI_ci_upper iff both counts are positive.
C16_EveryPlanToolHasOneRow ==
    pc \in {"tci_done", "ci_done"} =>
        /\ \A c \in DOMAIN df : \A t \in PlanNames(df[c]) \ {""} :
              Cardinality({ i \in DOMAIN tci_table : tci_table[i].tool = t }) = 1
        /\ pc = "ci_done" =>
              \A r \in TCIRows :
                 ({"TCI_ci_lower", "TCI_ci_upper"} \subseteq DOMAIN r)
                    <=> (r.n_correct > 0 /\ r.n_incorrect > 0)

-----------------------------------------------------------------------------
(* Properties of the complexity metrics, checked under SpecCplx.           *)

\* The sum over the conversations of f.
RECURSIVE SumOver(_, _)
SumOver(n, f) == IF n = 0 THEN 0 ELSE f[n] + SumOver(n - 1, f)

StatedWeighted ==
    SumOver(Len(df), [c \in DOMAIN df |->
                         IF df[c].success THEN df[c].exp_plan_len ELSE 0])

StatedPlanTotal == SumOver(Len(df), [c \in DOMAIN df |-> df[c].exp_plan_len])

\* C17: complexity_weighted_pass1 is the sum of success * exp_plan_len over
\* the sum of exp_plan_len, the denominator being 1 when every plan is empty
\* (the result is then 0); plan lengths [1,1,3,3] with success
\* [true,false,true,true] give 7/8.
C17_WeightedPass1 ==
    pc = "wp1_done" =>
        /\ IsRatio(weighted_pass1, StatedWeighted, Max(1, StatedPlanTotal))
        /\ (StatedPlanTotal = 0) => (weighted_pass1 = Float(0))
        /\ (/\ Len(df) = 4
            /\ [c \in 1..4 |-> df[c].exp_plan_len] = <<1, 1, 3, 3>>
            /\ [c \in 1..4 |-> df[c].success] = <<TRUE, FALSE, TRUE, TRUE>>)
               => weighted_pass1 = Frac(7, 8)

\* The dataset of the scenario, with its result.
C17_Witness ==
    /\ pc = "wp1_done"
    /\ Len(df) = 4
    /\ [c \in 1..4 |-> df[c].exp_plan_len] = <<1, 1, 3, 3>>
    /\ [c \in 1..4 |-> df[c].success] = <<TRUE, FALSE, TRUE, TRUE>>
    /\ weighted_pass1 = Frac(7, 8)

\* The bucket the specification gives a plan length.
StatedBucket(n) ==
    IF n <= 2 THEN "simple" ELSE IF n <= 5 THEN "medium" ELSE "complex"

BucketMembers(b) == { c \in DOMAIN df : StatedBucket(df[c].exp_plan_len) = b }

BucketRows(b) == { i \in DOMAIN bucket_pass1 : bucket_pass1[i].exp_plan_len = b }

\* C18: every conversation lies in exactly one bucket, simple for a length
\* up to 2, medium for 3 to 5 and complex from 6 on; that bucket has one row
\* of the table, whose pass@1 is the mean success of the bucket's members.
C18_BucketOfEveryConversation ==
    pc = "bucket_done" =>
        \A c \in DOMAIN df :
            LET b == StatedBucket(df[c].exp_plan_len)
            IN  /\ cut(df[c].exp_plan_len) = b
                /\ Cardinality(BucketRows(b)) = 1
                /\ \A i \in BucketRows(b) :
                      IsRatio(bucket_pass1[i].pass1,
                              Cardinality({ m \in BucketMembers(b) : df[m].success }),
                              Cardinality(BucketMembers(b)))

\* Plans of 2, 3, 5 and 6 steps, the first two conversations succeeding:
\* simple 1, medium 1/2, complex 0.
C18_Witness ==
    /\ pc = "bucket_done"
    /\ Len(df) = 4
    /\ [c \in 1..4 |-> df[c].exp_plan_len] = <<2, 3, 5, 6>>
    /\ [c \in 1..4 |-> df[c].success] = <<TRUE, TRUE, FALSE, FALSE>>
    /\ bucket_pass1 = <<[exp_plan_len |-> "simple", pass1 |-> Float(1)],
                        [exp_plan_len |-> "medium", pass1 |-> Frac(1, 2)],
                        [exp_plan_len |-> "complex", pass1 |-> Float(0)]>>

\* C19: the bucket table of a non-empty dataset has one row for each of
\* simple, medium and complex, and the row of a bucket without a member has an
\* undefined pass@1.
C19_ThreeBucketRows ==
    (pc = "bucket_done" /\ df # <<>>) =>
        \A b \in {"simple", "medium", "complex"} :
            /\ Cardinality(BucketRows(b)) = 1
            /\ \A i \in BucketRows(b) :
                  (BucketMembers(b) = {}) <=> (bucket_pass1[i].pass1 = NaN)

\* C20: no public metric entry point raises, whatever the dataset.
C20_NoEntryPointRaises ==
    pc \notin {"prf_raised", "wp1_raised", "bucket_raised"}

-----------------------------------------------------------------------------
(* Properties of the analyzers on caller-built datasets, under SpecRaw.    *)

\* C21: an entry that is not a mapping is skipped; no analyzer raises an
\* exception because of it.
C21_MalformedEntrySkipped ==
    pc # "raw_raised"

(* The aggregation of the contingency counts is additive over a split of   *)
(* the dataset and does not depend on the order of the conversations.      *)

CountCols == {"tp", "fp", "fn", "requires_tool"}

\* The count of a tool in an aggregated frame, 0 when the tool has no row.
CountIn(agg, tool, col) == SumCol(agg, tool, col)

\* The dataset with its conversations in the order p.
Permuted(d, p) == [i \in DOMAIN d |-> d[p[i]]]

\* C22: the tp, fp, fn and requires_tool of every tool on the concatenation
\* of two datasets are the sums of its counts on the two datasets, a tool
\* without a row in one of them counting 0 there, and they are the same for
\* every order of the conversations.
C22_CountsAdditiveAndOrderFree ==
    pc = "prf_done" =>
        /\ \A k \in 0..Len(df) :
              LET rows_A == calculate_rows(schemas, SubSeq(df, 1, k))
                  rows_B == calculate_rows(schemas, SubSeq(df, k + 1, Len(df)))
                  agg_A == groupby_tool_sum(rows_A)
                  agg_B == groupby_tool_sum(rows_B)
              IN  (rows_A # <<>> /\ rows_B # <<>>) =>
                      \A tool \in Range(SortedNames) : \A col \in CountCols :
                          CountIn(prf_table, tool, col)
                              = CountIn(agg_A, tool, col) + CountIn(agg_B, tool, col)
        /\ \A p \in Orders(DOMAIN df) :
              LET agg == calculate_agg(schemas, Permuted(df, p))
              IN  \A tool \in Range(SortedNames) : \A col \in CountCols :
                      CountIn(agg, tool, col) = CountIn(prf_table, tool, col)

\* Two conversations that both use get_order_details as planned: the table
\* adds 1 + 1, and for a tool neither of them has 0 + 0.
C22_Witness ==
    /\ pc = "prf_done"
    /\ Len(df) = 2
    /\ CountIn(calculate_agg(schemas, SubSeq(df, 1, 1)), "get_order_details", "tp") = 1
    /\ CountIn(calculate_agg(schemas, SubSeq(df, 2, 2)), "get_order_details", "tp") = 1
    /\ CountIn(prf_table, "get_order_details", "tp") = 2
    /\ CountIn(prf_table, "get_order_details", "requires_tool") = 2
    /\ CountIn(prf_table, "calculate", "tp") = 0

(* Two runs of the engine on the same dataset.                             *)

\* C23: a second run on the same dataset returns the same tables, rows in
\* the same order, whatever order the sets of tool names are iterated in.
C23_RunsAgree ==
    /\ pc = "tci_done" =>
          \A f \in tci_flag_runs(schemas, df) :
              (IF Len(f) > 0 THEN tci_rows_of(f) ELSE <<>>) = tci_table
    /\ pc = "prf_done" =>
          \A rs \in prf_row_runs(schemas, df) :
              rs # <<>> /\ _calculate_prf_metrics(groupby_tool_sum(rs)) = prf_table

(* The preparer and entries without a task_id.                              *)

\* The task ids of the entries of the run that have one, in file order.
RECURSIVE IdsOfSims(_)
IdsOfSims(sims) ==
    IF sims = <<>> THEN <<>>
    ELSE (IF "task_id" \in DOMAIN sims[1] THEN <<str(sims[1]["task_id"])>> ELSE <<>>)
             \o IdsOfSims(Tail(sims))

RECURSIVE IdsOfFiles(_)
IdsOfFiles(files) ==
    IF files = <<>> THEN <<>>
    ELSE IdsOfSims(files[1].simulations) \o IdsOfFiles(Tail(files))

\* C24: an entry without a task_id costs its own row only; when the preparer
\* is over, the dataset holds a record for every other entry of the run.
C24_OnlyTheEntryIsRejected ==
    pc \in {"prep_done", "prep_raised"} =>
        [i \in DOMAIN df |-> df[i].task_id] = IdsOfFiles(simulation_files)

(* The pairing the greedy matcher builds.                                  *)

SetMin(S) == CHOOSE x \in S : \A y \in S : x <= y

\* The executed invocations the current expected one could be paired with.
Unpaired ==
    { j \in DOMAIN ex_list :
        ~used[j] /\ _args_match(schemas, tool_name, gt_list[gi], ex_list[j], domain) }

\* C25: the expected invocations are taken in order; each is paired with the
\* unused executed invocation of lowest index that satisfies the predicate,
\* or with none; an executed invocation is paired at most once (the matched
\* count is the number of paired ones) and a pairing is never undone.
C25_GreedyPairing ==
    [][ /\ (pc = "match_loop" /\ gi <= Len(gt_list)) =>
              /\ gi' = gi + 1
              /\ IF Unpaired = {}
                 THEN used' = used /\ tp' = tp
                 ELSE used' = [used EXCEPT ![SetMin(Unpaired)] = TRUE] /\ tp' = tp + 1
        /\ (pc = "match_loop" /\ gi > Len(gt_list)) =>
              used' = used /\ matched_count' = tp
        /\ \A j \in DOMAIN used : used[j] => used'[j]
        /\ tp' = Cardinality({ j \in DOMAIN used' : used'[j] }) ]_vars

\* One expected invocation, two executed ones that both satisfy the
\* predicate: the first is taken, the second stays unused.
C25_Witness ==
    /\ pc = "match_done"
    /\ Len(gt_list) = 1
    /\ Len(ex_list) = 2
    /\ \A j \in 1..2 : _args_match(schemas, tool_name, gt_list[1], ex_list[j], domain)
    /\ used = <<TRUE, FALSE>>
    /\ matched_count = 1

(* The edit distance, from the edits themselves.                           *)

\* The sequences one insertion, deletion or substitution away from s, with
\* elements of Sigma and no longer than L.
OneEdit(s, Sigma, L) ==
    { SubSeq(s, 1, i - 1) \o SubSeq(s, i + 1, Len(s)) : i \in DOMAIN s }
    \cup { [s EXCEPT ![i] = x] : i \in DOMAIN s, x \in Sigma }
    \cup (IF Len(s) < L
          THEN { SubSeq(s, 1, i) \o <<x>> \o SubSeq(s, i + 1, Len(s)) :
                    i \in 0..Len(s), x \in Sigma }
          ELSE {})

\* The least k such that b is among the sequences at most k edits away from
\* the ones of reached.
RECURSIVE EditsNeeded(_, _, _, _, _)
EditsNeeded(reached, b, Sigma, L, k) ==
    IF b \in reached THEN k
    ELSE EditsNeeded(reached \cup UNION { OneEdit(s, Sigma, L) : s \in reached },
                     b, Sigma, L, k + 1)

\* The minimum number of unit-cost edits that turn a into b.  An optimal
\* edit script needs no sequence longer than the longer of a and b and no
\* element outside them.
EditDistance(a, b) ==
    EditsNeeded({a}, b, Range(a) \cup Range(b), Max(Len(a), Len(b)), 0)

\* C26: the value levenshtein returns is the minimum number of insertions,
\* deletions and substitutions that turn gt_names into ex_names, and the
\* call returns for every pair of sequences, the empty ones included: every
\* conversation visited has its row.
C26_LevenshteinIsEditDistance ==
    RowComputed =>
        /\ ped = EditDistance(gt_names, ex_names)
        /\ Len(seq_rows) = idx - 1

\* A plan of two names against a trace of one other name: one substitution
\* and one deletion.
C26_Witness ==
    /\ RowComputed
    /\ Len(gt_names) = 2
    /\ Len(ex_names) = 1
    /\ ex_names[1] \notin Range(gt_names)
    /\ ped = 2

(* Conservation of the invocations in the PRF table.                       *)

\* The number of invocations of tool t in the lists named field, over the
\* first n conversations.
RECURSIVE TotalNamed(_, _, _)
TotalNamed(field, t, n) ==
    IF n = 0 THEN 0
    ELSE TotalNamed(field, t, n - 1) + Len(ArgsNamed(df[n][field], t))

\* C27: in every row of the table tp + fn is the number of expected
\* invocations of the tool in the dataset and tp + fp the number of executed
\* ones; in no conversation does max(0, .) replace a negative difference.
C27_InvocationsConserved ==
    /\ pc = "prf_done" =>
          \A r \in TableRows :
              /\ r.tp + r.fn = TotalNamed("gt_tools", r.tool, Len(df))
              /\ r.tp + r.fp = TotalNamed("executed_tools", r.tool, Len(df))
    /\ pc \in {"prf_rows", "prf_done"} =>
          \A c \in 1..(idx - 1) : \A t \in NamesOf(df[c]) :
              LET gtl == ArgsNamed(df[c].gt_tools, t)
                  exl == ArgsNamed(df[c].executed_tools, t)
                  m == _greedy_match_tools(schemas, gtl, exl, t, df[c].domain)
              IN  Len(gtl) - m >= 0 /\ Len(exl) - m >= 0

\* Two expected invocations of a tool with different order ids, one executed:
\* one matched, one missed, none spurious.
C27_Witness ==
    /\ pc = "prf_done"
    /\ \E r \in TableRows :
          /\ r.tool = "get_order_details"
          /\ TotalNamed("gt_tools", r.tool, Len(df)) = 2
          /\ TotalNamed("executed_tools", r.tool, Len(df)) = 1
          /\ r.tp = 1 /\ r.fn = 1 /\ r.fp = 0

\* C28: requires_tool is 0 exactly when tp + fn is 0 and never more than
\* tp + fn, so a row with a missed invocation has requires_tool > 0, and
\* omission_rate is undefined in exactly the rows where recall is.
C28_RequiresToolAndExpected ==
    pc = "prf_done" =>
        \A r \in TableRows :
            /\ (r.requires_tool = 0) <=> (r.tp + r.fn = 0)
            /\ r.requires_tool <= r.tp + r.fn
            /\ r.fn > 0 => r.requires_tool > 0
            /\ (r.omission_rate = NaN) <=> (r.recall = NaN)

\* A tool that was executed but never expected (both rates undefined) next
\* to a tool expected twice in one conversation (requires_tool 1 < 2).
C28_Witness ==
    /\ pc = "prf_done"
    /\ \E r \in TableRows :
          /\ r.requires_tool = 0 /\ r.tp + r.fn = 0
          /\ r.omission_rate = NaN /\ r.recall = NaN
    /\ \E r \in TableRows :
          /\ r.requires_tool = 1 /\ r.tp + r.fn = 2
          /\ r.omission_rate # NaN /\ r.recall # NaN

(* The tool-criticality flag and the PRF matcher on the same conversation. *)

\* tp of PerToolPRFMetric.calculate for tool t in the conversation conv.
GreedyTp(conv, t) ==
    _greedy_match_tools(schemas,
                        dd_get(group_tools_by_name(conv.gt_tools), t),
                        dd_get(group_tools_by_name(conv.executed_tools), t),
                        t, conv.domain)

\* C29: for every conversation and every non-empty tool name of its plan,
\* the flag correct is 1 exactly when the greedy matcher of the PRF
\* aggregator, with the same catalog, pairs at least one invocation of that
\* tool in that conversation.
C29_CorrectIffGreedyMatches ==
    pc \in {"tci_rows", "tci_done"} =>
        \A c \in 1..(idx - 1) :
            LET fl == FlagsOfConv(c)
            IN  \A p \in DOMAIN fl :
                    fl[p].tool # "" =>
                        ((fl[p].correct = 1) <=> (GreedyTp(df[c], fl[p].tool) >= 1))

\* A plan with two invocations of a checked tool of which only the second
\* is executed: correct = 1 and the matcher pairs one.
C29_Witness ==
    /\ pc = "tci_done"
    /\ Len(df) = 1
    /\ Len(df[1].gt_tools) = 2
    /\ Len(df[1].executed_tools) = 1
    /\ df[1].gt_tools[1].name = "get_order_details"
    /\ df[1].gt_tools[1] # df[1].executed_tools[1]
    /\ df[1].gt_tools[2] = df[1].executed_tools[1]
    /\ get_tool_schema(schemas, "retail", "get_order_details") = <<"order_id">>
    /\ flags[1].correct = 1
    /\ GreedyTp(df[1], "get_order_details") = 1

(* The schema the loader fixes, and what it means for an expected          *)
(* invocation that lacks one of its keys.                                  *)

\* The actions the loader has gone through, in task order.
RECURSIVE ActionsUpTo(_, _)
ActionsUpTo(t, a) ==
    IF t = 0 THEN <<>>
    ELSE IF t > Len(tasks_data) THEN ActionsUpTo(t - 1, 0)
    ELSE ActionsUpTo(t - 1, 0)
             \o (IF a = 0 THEN tasks_data[t].actions
                 ELSE SubSeq(tasks_data[t].actions, 1, a - 1))

Processed ==
    IF pc = "extract" THEN ActionsUpTo(task_i, action_i)
    ELSE ActionsUpTo(Len(tasks_data), 0)

\* The actions of name n whose arguments are a mapping or a list.
Deciding(acts, n) ==
    SelectSeq(acts, LAMBDA x : x.name = n /\ x.kind \in {"dict", "list"})

KeySetOf(action) ==
    IF action.kind = "dict" THEN DOMAIN action.arguments ELSE Range(action.keys)

\* The keys of the schema of the tool being matched.
LoadedKeys == Range(get_tool_schema(schemas, domain, tool_name))

\* The expected invocations that lack a key of the schema.
Lacking == { i \in DOMAIN gt_list : ~(LoadedKeys \subseteq DOMAIN gt_list[i]) }

AsTools(name, args_list) ==
    [i \in DOMAIN args_list |-> [name |-> name, arguments |-> args_list[i]]]

\* C30: a tool has a schema exactly when some action of its name (not the
\* empty name) has a mapping or a list as arguments, and the keys are those
\* of the first such action in task order; an expected invocation that lacks
\* one of the keys matches no executed invocation and is a false negative,
\* and the tool is correct only through another expected invocation.
C30_FirstActionFixesSchema ==
    /\ pc \in {"extract", "schema_done", "match_loop", "match_done"} =>
          \A n \in {"get_order_details", "calculate", ""} :
              LET d == Deciding(Processed, n)
              IN  IF n # "" /\ d # <<>>
                  THEN /\ n \in DOMAIN tool_schemas
                       /\ Range(tool_schemas[n]) = KeySetOf(d[1])
                       /\ Len(tool_schemas[n]) = Cardinality(KeySetOf(d[1]))
                  ELSE n \notin DOMAIN tool_schemas
    /\ pc \in {"schema_done", "match_loop", "match_done"} =>
          schemas = [d \in {"retail"} |-> tool_schemas]
    /\ pc \in {"match_loop", "match_done"} =>
          /\ \A i \in Lacking : \A j \in DOMAIN ex_list :
                 ~_args_match(schemas, tool_name, gt_list[i], ex_list[j], domain)
          /\ tci_correct(schemas, tool_name, AsTools(tool_name, gt_list),
                         AsTools(tool_name, ex_list), domain) = 1
                => \E i \in DOMAIN gt_list \ Lacking : \E j \in DOMAIN ex_list :
                      _args_match(schemas, tool_name, gt_list[i], ex_list[j], domain)
    /\ pc = "match_done" =>
          /\ matched_count <= Len(gt_list) - Cardinality(Lacking)
          /\ prf_row(schemas, tool_name, gt_list, ex_list, domain).fn
                 >= Cardinality(Lacking)

\* The first action of get_order_details has the key order_id, a later one
\* lists order_id and reason: the schema is order_id alone.  Of two expected invocations
\* the one without order_id is missed although the executed list has an
\* invocation without order_id too; the other one is matched.
C30_Witness ==
    /\ pc = "match_done"
    /\ Len(Deciding(Processed, "get_order_details")) = 2
    /\ KeySetOf(Deciding(Processed, "get_order_details")[1]) = {"order_id"}
    /\ KeySetOf(Deciding(Processed, "get_order_details")[2]) = {"order_id", "reason"}
    /\ get_tool_schema(schemas, domain, tool_name) = <<"order_id">>
    /\ gt_list = << <<>>, [k \in {"order_id"} |-> 1] >>
    /\ ex_list = << <<>>, [k \in {"order_id"} |-> 1] >>
    /\ matched_count = 1
    /\ prf_row(schemas, tool_name, gt_list, ex_list, domain).fn = 1

====
